---------------------------- MODULE Spec2Model ----------------------------
(***************************************************************************)
(* High Low Trading (open_spiel/games/high_low_trading): the action codec  *)
(* (action_manager.cc), the matching engine (market.cc) and the game state *)
(* machine (high_low_trading.cc).                                          *)
(*                                                                         *)
(* C++ vectors are sequences: the C++ index i is the TLA+ index i + 1.     *)
(***************************************************************************)
EXTENDS Integers, Naturals, Sequences, FiniteSets, TLC

(***************************************************************************)
(* Game configuration (class Config); the values are the model's bounds.   *)
(***************************************************************************)
NumPlayers == 4
StepsPerPlayer == 1
MaxContractsPerTrade == 1
CustomerMaxSize == 1
MaxContractValue == 2

(***************************************************************************)
(* action_manager.cc                                                       *)
(***************************************************************************)
RECURSIVE factorial(_)
factorial(n) == IF n <= 0 THEN 1 ELSE n * factorial(n - 1)

\* the game parameter steps_per_player of the game a run plays
VARIABLE steps_per_player_

\* HighLowTradingGame::MaxChanceNodesInHistory
MaxChanceNodesInHistory == 4 + (NumPlayers - 3)

\* HighLowTradingGame::MaxGameLength
MaxGameLength == MaxChanceNodesInHistory + steps_per_player_ * NumPlayers

\* the phase map with kCustomerSize ending after the customers' draws
game_phase_by_customers(timestep) ==
    IF timestep < 0 THEN "SpielFatalError"
    ELSE IF timestep < 2 THEN "kChanceValue"
    ELSE IF timestep = 2 THEN "kChanceHighLow"
    ELSE IF timestep = 3 THEN "kChancePermutation"
    ELSE IF timestep < 4 + (NumPlayers - 3) THEN "kCustomerSize"
    ELSE IF timestep < 4 + (NumPlayers - 3) + steps_per_player_ * NumPlayers
         THEN "kPlayerTrading"
    ELSE "kTerminal"

\* ActionManager::game_phase_of_timestep
game_phase_of_timestep(timestep) ==
    IF timestep < 0 THEN "SpielFatalError"
    ELSE IF timestep < 2 THEN "kChanceValue"
    ELSE IF timestep = 2 THEN "kChanceHighLow"
    ELSE IF timestep = 3 THEN "kChancePermutation"
    ELSE IF timestep < 4 + NumPlayers THEN "kCustomerSize"
    ELSE IF timestep < 4 + NumPlayers + steps_per_player_ * NumPlayers
         THEN "kPlayerTrading"
    ELSE "kTerminal"

ActionPhases ==
    {"kChanceValue", "kChanceHighLow", "kChancePermutation", "kCustomerSize",
     "kPlayerTrading"}

\* ActionManager::valid_action_range: the pair {min, max}, inclusive
valid_action_range(phase) ==
    CASE phase = "kChanceValue" -> <<0, MaxContractValue - 1>>
      [] phase = "kChanceHighLow" -> <<0, 1>>
      [] phase = "kChancePermutation" -> <<0, factorial(NumPlayers) - 1>>
      [] phase = "kCustomerSize" -> <<0, 2 * CustomerMaxSize>>
      [] phase = "kPlayerTrading" ->
           <<0, (MaxContractsPerTrade + 1) * (MaxContractsPerTrade + 1)
                  * MaxContractValue * MaxContractValue - 1>>

\* erase the element at C++ index d from a vector
EraseAt(pool, d) ==
    [j \in 1 .. (Len(pool) - 1) |-> IF j <= d THEN pool[j] ELSE pool[j + 1]]

\* the Lehmer digits of x, most significant first (digit i uses fact[n-1-i])
RECURSIVE LehmerDigits(_, _)
LehmerDigits(x, n) ==
    IF n = 0 THEN <<>>
    ELSE <<x \div factorial(n - 1)>>
           \o LehmerDigits(x % factorial(n - 1), n - 1)

RECURSIVE DecodeLehmer(_, _)
DecodeLehmer(lehmer, pool) ==
    IF lehmer = <<>> THEN <<>>
    ELSE <<pool[Head(lehmer) + 1]>>
           \o DecodeLehmer(Tail(lehmer), EraseAt(pool, Head(lehmer)))

\* nth_permutation(x, n)
nth_permutation(x, n) ==
    DecodeLehmer(LehmerDigits(x, n), [j \in 1 .. n |-> j - 1])

\* the index of v in the pool before any element was erased
IndexInFullPool(pool, v) == v

\* std::find: the C++ index of v in pool
IndexIn(pool, v) == (CHOOSE j \in 1 .. Len(pool) : pool[j] = v) - 1

RECURSIVE RankFrom(_, _)
RankFrom(perm, pool) ==
    IF perm = <<>> THEN 0
    ELSE IndexIn(pool, Head(perm)) * factorial(Len(perm) - 1)
           + RankFrom(Tail(perm), EraseAt(pool, IndexIn(pool, Head(perm))))

\* permutation_rank(perm)
permutation_rank(perm) == RankFrom(perm, [j \in 1 .. Len(perm) |-> j - 1])

\* roles with the HighLowCheater at perm_id 1
RoleOfPermIdOneCheater(perm_id) ==
    IF perm_id = 0 THEN "kValueCheater"
    ELSE IF perm_id = 1 THEN "kHighLowCheater"
    ELSE "kCustomer"

\* the role loop of RawToStructuredAction, kChancePermutation
RoleOfPermId(perm_id) ==
    IF perm_id = 0 \/ perm_id = 1 THEN "kValueCheater"
    ELSE IF perm_id = 2 THEN "kHighLowCheater"
    ELSE "kCustomer"

\* customer size decoded without stepping over 0
DecodeCustomerSizeWithZero(raw_action) == raw_action - CustomerMaxSize

\* the kCustomerSize case of RawToStructuredAction
DecodeCustomerSize(raw_action) ==
    LET customer_size == raw_action - CustomerMaxSize
    IN  IF customer_size >= 0 THEN customer_size + 1 ELSE customer_size

\* the kPlayerTrading case of RawToStructuredAction
DecodeQuote(raw_action) ==
    LET bid_size_denom ==
            (MaxContractsPerTrade + 1) * MaxContractValue * MaxContractValue
        bid_size == raw_action \div bid_size_denom
        rolling1 == raw_action % bid_size_denom
        ask_size_denom == MaxContractValue * MaxContractValue
        ask_size == rolling1 \div ask_size_denom
        rolling2 == rolling1 % ask_size_denom
        bid_price_denom == MaxContractValue
        bid_price == (rolling2 \div bid_price_denom) + 1
        rolling3 == rolling2 % bid_price_denom
        ask_price == rolling3 + 1
    IN  [type |-> "PlayerQuoteAction", bid_size_ |-> bid_size,
         bid_price_ |-> bid_price, ask_size_ |-> ask_size,
         ask_price_ |-> ask_price]

\* ActionManager::RawToStructuredAction(GamePhase, Action)
RawToStructuredAction(phase, raw_action) ==
    IF phase \notin ActionPhases THEN [type |-> "SpielFatalError"]
    ELSE IF raw_action < valid_action_range(phase)[1]
            \/ raw_action > valid_action_range(phase)[2]
    THEN [type |-> "SpielFatalError"]
    ELSE CASE phase = "kChanceValue" ->
                [type |-> "ChanceContractValueAction",
                 contract_value_ |-> raw_action + 1]
           [] phase = "kChanceHighLow" ->
                [type |-> "ChanceHighLowAction", is_high_ |-> (raw_action = 1)]
           [] phase = "kChancePermutation" ->
                LET perm == nth_permutation(raw_action, NumPlayers)
                IN  [type |-> "ChancePermutationAction",
                     player_roles_ |->
                         [i \in 1 .. NumPlayers |-> RoleOfPermId(perm[i])],
                     permutation_ |-> perm]
           [] phase = "kCustomerSize" ->
                [type |-> "ChanceCustomerSizeAction",
                 customer_size_ |-> DecodeCustomerSize(raw_action)]
           [] phase = "kPlayerTrading" -> DecodeQuote(raw_action)

\* the alternative that std::get<T> asks for in each case of
\* StructuredToRawAction
VariantOfPhase(phase) ==
    CASE phase = "kChanceValue" -> "ChanceContractValueAction"
      [] phase = "kChanceHighLow" -> "ChanceHighLowAction"
      [] phase = "kChancePermutation" -> "ChancePermutationAction"
      [] phase = "kCustomerSize" -> "ChanceCustomerSizeAction"
      [] phase = "kPlayerTrading" -> "PlayerQuoteAction"

\* customer size encoded without closing the gap at 0
EncodeCustomerSizeUnadjusted(customer_size) == customer_size + CustomerMaxSize

\* the kCustomerSize case of StructuredToRawAction
EncodeCustomerSize(customer_size) ==
    LET adjusted_size ==
            IF customer_size > 0 THEN customer_size - 1 ELSE customer_size
    IN  adjusted_size + CustomerMaxSize

\* the encoding with the two prices as the most significant digits of a quote
StructuredToRawActionPricesFirst(phase, a) ==
    CASE phase = "kChanceValue" -> a.contract_value_ - 1
      [] phase = "kChanceHighLow" -> IF a.is_high_ THEN 1 ELSE 0
      [] phase = "kChancePermutation" -> permutation_rank(a.permutation_)
      [] phase = "kCustomerSize" -> EncodeCustomerSize(a.customer_size_)
      [] phase = "kPlayerTrading" ->
           a.ask_size_ + a.bid_size_ * (MaxContractsPerTrade + 1)
             + (a.ask_price_ - 1) * (MaxContractsPerTrade + 1)
                 * (MaxContractsPerTrade + 1)
             + (a.bid_price_ - 1) * MaxContractValue
                 * (MaxContractsPerTrade + 1) * (MaxContractsPerTrade + 1)

\* ActionManager::StructuredToRawAction, for an action holding the
\* alternative of the phase
StructuredToRawAction(phase, a) ==
    CASE phase = "kChanceValue" -> a.contract_value_ - 1
      [] phase = "kChanceHighLow" -> IF a.is_high_ THEN 1 ELSE 0
      [] phase = "kChancePermutation" -> permutation_rank(a.permutation_)
      [] phase = "kCustomerSize" -> EncodeCustomerSize(a.customer_size_)
      [] phase = "kPlayerTrading" ->
           (a.ask_price_ - 1) + (a.bid_price_ - 1) * MaxContractValue
             + a.ask_size_ * MaxContractValue * MaxContractValue
             + a.bid_size_ * (MaxContractsPerTrade + 1) * MaxContractValue
                 * MaxContractValue

(***************************************************************************)
(* market.h / market.cc                                                    *)
(***************************************************************************)
OrderEntry(price, size, tid, customer_id, is_bid) ==
    [price |-> price, size |-> size, tid |-> tid, customer_id |-> customer_id,
     is_bid |-> is_bid]

OrderFillEntry(price, size, tid, quote_size, quoter_id, customer_id, quote_tid, is_sell_quote) ==
    [price |-> price, size |-> size, tid |-> tid, quote_size |-> quote_size,
     quoter_id |-> quoter_id, customer_id |-> customer_id,
     quote_tid |-> quote_tid, is_sell_quote |-> is_sell_quote]

\* struct OrderEntryLess: the heap order of the two books (both orders are of
\* the same side wherever it is called)
OrderEntryLess(a, b) ==
    IF a.is_bid THEN a.price < b.price ELSE a.price > b.price

\* std::__push_heap: move the hole (C++ index) up while its parent is less
\* than value
RECURSIVE SiftUp(_, _, _, _)
SiftUp(h, holeIndex, topIndex, value) ==
    LET parent == (holeIndex - 1) \div 2
    IN  IF holeIndex > topIndex /\ OrderEntryLess(h[parent + 1], value)
        THEN SiftUp([h EXCEPT ![holeIndex + 1] = h[parent + 1]], parent,
                    topIndex, value)
        ELSE [h EXCEPT ![holeIndex + 1] = value]

\* OrderQueue::push: push_back, then std::push_heap
QueuePush(h, value) == SiftUp(Append(h, value), Len(h), 0, value)

\* the loop of std::__adjust_heap: move the hole down to the larger child
RECURSIVE SiftDown(_, _, _)
SiftDown(h, holeIndex, len) ==
    IF holeIndex < (len - 1) \div 2
    THEN LET right == 2 * (holeIndex + 1)
             secondChild ==
                 IF OrderEntryLess(h[right + 1], h[right]) THEN right - 1
                 ELSE right
         IN  SiftDown([h EXCEPT ![holeIndex + 1] = h[secondChild + 1]],
                      secondChild, len)
    ELSE IF len % 2 = 0 /\ holeIndex = (len - 2) \div 2
    THEN [heap |-> [h EXCEPT ![holeIndex + 1] = h[2 * (holeIndex + 1)]],
          holeIndex |-> 2 * (holeIndex + 1) - 1]
    ELSE [heap |-> h, holeIndex |-> holeIndex]

\* OrderQueue::pop: std::pop_heap (the last element takes the place of the
\* top through __adjust_heap), then pop_back
QueuePop(h) ==
    IF Len(h) <= 1 THEN <<>>
    ELSE LET value == h[Len(h)]
             rest == SubSeq(h, 1, Len(h) - 1)
             down == SiftDown(rest, 0, Len(rest))
         IN  SiftUp(down.heap, down.holeIndex, 0, value)

\* OrderQueue::top
QueueTop(h) == h[1]

Min(a, b) == IF a < b THEN a ELSE b

\* matching stops when the top prices are equal
TopOrdersCrossStrictly(buy_order, sell_order) ==
    buy_order.price > sell_order.price

\* MatchOrders: "If top orders don't cross, stop matching"
TopOrdersCross(buy_order, sell_order) == ~(buy_order.price < sell_order.price)

\* the flag telling that the buy order is the older of the two
IsSellQuoteOfOlderBuy(buy_order, sell_order) == buy_order.tid < sell_order.tid

\* MatchOrders: the quote is the order with the smaller tid
IsSellQuote(buy_order, sell_order) == buy_order.tid > sell_order.tid

\* trade_price taken from the incoming order
TradePriceOfTaker(buy_order, sell_order) ==
    IF buy_order.tid > sell_order.tid THEN buy_order.price
    ELSE sell_order.price

\* MatchOrders: trade_price
TradePrice(buy_order, sell_order) ==
    IF IsSellQuote(buy_order, sell_order) THEN sell_order.price
    ELSE buy_order.price

\* trade_size taken from the buy order
TradeSizeOfBuy(buy_order, sell_order) == buy_order.size

\* MatchOrders: trade_size
TradeSize(buy_order, sell_order) == Min(buy_order.size, sell_order.size)

\* the fill record with the two owners exchanged
FillOfSwappedOwners(buy_order, sell_order) ==
    LET is_sell_quote == IsSellQuote(buy_order, sell_order)
    IN  OrderFillEntry(TradePrice(buy_order, sell_order),
            TradeSize(buy_order, sell_order),
            IF is_sell_quote THEN sell_order.tid ELSE buy_order.tid,
            IF is_sell_quote THEN sell_order.size ELSE buy_order.size,
            IF is_sell_quote THEN buy_order.customer_id
            ELSE sell_order.customer_id,
            IF is_sell_quote THEN sell_order.customer_id
            ELSE buy_order.customer_id,
            IF is_sell_quote THEN sell_order.tid ELSE buy_order.tid,
            is_sell_quote)

\* MatchOrders: the fill record of one match
FillOf(buy_order, sell_order) ==
    LET is_sell_quote == IsSellQuote(buy_order, sell_order)
    IN  OrderFillEntry(TradePrice(buy_order, sell_order),
            TradeSize(buy_order, sell_order),
            IF is_sell_quote THEN sell_order.tid ELSE buy_order.tid,
            IF is_sell_quote THEN sell_order.size ELSE buy_order.size,
            IF is_sell_quote THEN sell_order.customer_id
            ELSE buy_order.customer_id,
            IF is_sell_quote THEN buy_order.customer_id
            ELSE sell_order.customer_id,
            IF is_sell_quote THEN sell_order.tid ELSE buy_order.tid,
            is_sell_quote)

\* MatchOrders: "Calculate remaining orders and push back if necessary", on
\* the book the matched order was popped from
PushRemaining(popped, order, trade_size) ==
    IF order.size - trade_size > 0
    THEN QueuePush(popped,
             OrderEntry(order.price, order.size - trade_size, order.tid,
                 order.customer_id, order.is_bid))
    ELSE popped

\* Market::MatchOrders: the while loop, from the books and the trades so far
RECURSIVE MatchOrders(_, _, _)
MatchOrders(buy, sell, trades) ==
    IF buy = <<>> \/ sell = <<>>
    THEN [buy |-> buy, sell |-> sell, trades |-> trades, fatal |-> FALSE]
    ELSE LET buy_order == QueueTop(buy)
             sell_order == QueueTop(sell)
         IN  IF ~TopOrdersCross(buy_order, sell_order)
             THEN [buy |-> buy, sell |-> sell, trades |-> trades,
                   fatal |-> FALSE]
             ELSE IF buy_order.tid = sell_order.tid
             THEN [buy |-> QueuePop(buy), sell |-> QueuePop(sell),
                   trades |-> trades, fatal |-> TRUE]
             ELSE LET trade_size == TradeSize(buy_order, sell_order)
                  IN  MatchOrders(
                          PushRemaining(QueuePop(buy), buy_order, trade_size),
                          PushRemaining(QueuePop(sell), sell_order,
                                        trade_size),
                          Append(trades, FillOf(buy_order, sell_order)))

\* Market::AddOrder on the books (buy, sell): the books after the call, the
\* fills it returns, and whether it ended in SpielFatalError
MarketAddOrder(buy, sell, order) ==
    IF order.size = 0
    THEN [buy |-> buy, sell |-> sell, trades |-> <<>>, fatal |-> FALSE]
    ELSE IF order.is_bid THEN MatchOrders(QueuePush(buy, order), sell, <<>>)
    ELSE MatchOrders(buy, QueuePush(sell, order), <<>>)

\* ClearOrders: the queue popped empty, its orders in the order of the pops
RECURSIVE DrainQueue(_)
DrainQueue(h) ==
    IF h = <<>> THEN <<>> ELSE <<QueueTop(h)>> \o DrainQueue(QueuePop(h))

\* ClearOrders: "Rebuild ... orders queue", pushing the kept orders in turn
RECURSIVE RebuildQueue(_, _)
RebuildQueue(h, temp_orders) ==
    IF temp_orders = <<>> THEN h
    ELSE RebuildQueue(QueuePush(h, Head(temp_orders)), Tail(temp_orders))

\* an order kept unless its tid is the customer's id
KeepsOrderByTid(order, customer_id) == order.tid # customer_id

\* ClearOrders: the test that keeps a popped order
KeepsOrder(order, customer_id) == order.customer_id # customer_id

\* Market::ClearOrders on one of the two queues
ClearQueue(h, customer_id) ==
    LET KeepsIt(order) == KeepsOrder(order, customer_id)
    IN  RebuildQueue(<<>>, SelectSeq(DrainQueue(h), KeepsIt))

\* Market::ClearOrders
MarketClearOrders(buy, sell, customer_id) ==
    [buy |-> ClearQueue(buy, customer_id),
     sell |-> ClearQueue(sell, customer_id)]

(***************************************************************************)
(* high_low_trading.h / high_low_trading.cc                                *)
(***************************************************************************)
VARIABLES
    move_number_,               \* State::move_number_
    contract_values_,           \* the two drawn contract values
    contract_high_settle_,      \* is_high_ of the high/low draw
    player_permutation_,        \* [player_roles_, permutation_]
    player_quotes_,             \* log of <<player, quote>>
    player_positions_,          \* per player [num_contracts, cash_balance]
    player_target_positions_,   \* per player target, 0 = no requirement
    order_fills_,               \* log of fills
    buy_orders_,                \* market_.buy_orders_, the heap's array
    sell_orders_,               \* market_.sell_orders_, the heap's array
    fatal,                      \* "none", or how the process ended
    next_tid,                   \* matching engine alone: tid of the next order
    last_order,                 \* matching engine alone: argument of AddOrder
    last_fills,                 \* matching engine alone: what AddOrder returned
    book_before,                \* matching engine alone: books at the call
    codec,                      \* codec alone: a call and its result
    returns,                    \* what Returns() returned, <<>> before the call
    history_,                   \* State::history_: log of <<player, action>>
    values,                     \* the buffer InformationStateTensor filled
    orders_,                    \* matching engine alone: the orders AddOrder got
    info_string_                \* what InformationStateString returned

vars ==
    <<steps_per_player_, move_number_, contract_values_, contract_high_settle_,
      player_permutation_, player_quotes_, player_positions_,
      player_target_positions_, order_fills_, buy_orders_, sell_orders_,
      fatal, next_tid, last_order, last_fills, book_before, codec, returns,
      history_, values, orders_, info_string_>>

gameVars ==
    <<steps_per_player_, move_number_, contract_values_, contract_high_settle_,
      player_permutation_, player_quotes_, player_positions_,
      player_target_positions_, order_fills_, buy_orders_, sell_orders_,
      fatal, history_>>

callVars ==
    <<next_tid, last_order, last_fills, book_before, returns, values, orders_, info_string_>>

kChancePlayerId == -1
kTerminalPlayerId == -4

\* the fields of a HighLowTradingState as one record
State ==
    [move_number_ |-> move_number_, contract_values_ |-> contract_values_,
     contract_high_settle_ |-> contract_high_settle_,
     player_permutation_ |-> player_permutation_,
     player_quotes_ |-> player_quotes_,
     player_positions_ |-> player_positions_,
     player_target_positions_ |-> player_target_positions_,
     order_fills_ |-> order_fills_, buy_orders_ |-> buy_orders_,
     sell_orders_ |-> sell_orders_, fatal |-> fatal, history_ |-> history_]

\* HighLowTradingState::HighLowTradingState
NewInitialState ==
    [move_number_ |-> 0, contract_values_ |-> <<0, 0>>,
     contract_high_settle_ |-> FALSE,
     player_permutation_ |->
         [player_roles_ |-> [i \in 1 .. NumPlayers |-> "kCustomer"],
          permutation_ |-> [i \in 1 .. NumPlayers |-> 0]],
     player_quotes_ |-> <<>>,
     player_positions_ |->
         [i \in 1 .. NumPlayers |-> [num_contracts |-> 0, cash_balance |-> 0]],
     player_target_positions_ |-> [i \in 1 .. NumPlayers |-> 0],
     order_fills_ |-> <<>>, buy_orders_ |-> <<>>, sell_orders_ |-> <<>>,
     fatal |-> "none", history_ |-> <<>>]

\* HighLowTradingState::IsTerminal
IsTerminal(s) == s.move_number_ >= MaxGameLength

\* the player to move counted from move 0 instead of the first player move
CurrentPlayerFromMoveZero(s) ==
    IF s.move_number_ >= MaxGameLength THEN kTerminalPlayerId
    ELSE IF s.move_number_ < MaxChanceNodesInHistory THEN kChancePlayerId
    ELSE s.move_number_ % NumPlayers

\* HighLowTradingState::CurrentPlayer
CurrentPlayer(s) ==
    IF IsTerminal(s) THEN kTerminalPlayerId
    ELSE IF s.move_number_ < MaxChanceNodesInHistory THEN kChancePlayerId
    ELSE (s.move_number_ - MaxChanceNodesInHistory) % NumPlayers

\* HighLowTradingState::LegalActions
LegalActions(s) ==
    IF IsTerminal(s) THEN {}
    ELSE LET range == valid_action_range(game_phase_of_timestep(s.move_number_))
         IN  range[1] .. range[2]

\* the settlement taken as the larger value whatever the high/low draw
GetContractValueHigh(s) ==
    IF s.contract_values_[2] >= s.contract_values_[1]
    THEN s.contract_values_[2] ELSE s.contract_values_[1]

\* HighLowTradingState::GetContractValue: std::max / std::min of the two
\* values (called with MoveNumber() >= 3)
GetContractValue(s) ==
    IF s.contract_high_settle_
    THEN (IF s.contract_values_[2] < s.contract_values_[1]
          THEN s.contract_values_[1] ELSE s.contract_values_[2])
    ELSE (IF s.contract_values_[1] < s.contract_values_[2]
          THEN s.contract_values_[1] ELSE s.contract_values_[2])

\* HighLowTradingState::Returns: the body of the loop for player j (C++ index)
PlayerReturn(s, j) ==
    LET contract_value == GetContractValue(s)
        player_return ==
            s.player_positions_[j + 1].cash_balance
              + s.player_positions_[j + 1].num_contracts * contract_value
        position_diff ==
            s.player_target_positions_[j + 1]
              - s.player_positions_[j + 1].num_contracts
    IN  IF s.player_target_positions_[j + 1] # 0
        THEN player_return
               - (IF position_diff > 0 THEN position_diff ELSE -position_diff)
                   * MaxContractValue
        ELSE player_return

\* HighLowTradingState::Returns
Returns(s) == [i \in 1 .. NumPlayers |-> PlayerReturn(s, i - 1)]

\* the fill loop without the quoter's cash
ApplyFillWithoutQuoterCash(positions, fill) ==
    LET c == fill.customer_id + 1
        q == fill.quoter_id + 1
        sign == IF fill.is_sell_quote THEN 1 ELSE -1
        p1 == [positions EXCEPT ![c].num_contracts = @ + sign * fill.size]
        p2 == [p1 EXCEPT ![c].cash_balance = @ - sign * fill.price * fill.size]
    IN  [p2 EXCEPT ![q].num_contracts = @ - sign * fill.size]

\* one iteration of the fill loop of DoApplyAction
ApplyFill(positions, fill) ==
    LET c == fill.customer_id + 1
        q == fill.quoter_id + 1
        amount == fill.price * fill.size
        sign == IF fill.is_sell_quote THEN 1 ELSE -1
        p1 == [positions EXCEPT
                 ![c].num_contracts = @ + sign * fill.size]
        p2 == [p1 EXCEPT ![c].cash_balance = @ - sign * amount]
        p3 == [p2 EXCEPT ![q].num_contracts = @ - sign * fill.size]
    IN  [p3 EXCEPT ![q].cash_balance = @ + sign * amount]

\* the fill loop of DoApplyAction
RECURSIVE ApplyFills(_, _)
ApplyFills(positions, fills) ==
    IF fills = <<>> THEN positions
    ELSE ApplyFills(ApplyFill(positions, Head(fills)), Tail(fills))

\* the tid of the bid order of the quote of a move
BidTid(move_number) == 2 * move_number

\* the ask order given the tid of the bid order
AskTidOfBid(move_number) == 2 * move_number

\* the tid of the ask order of the quote of a move
AskTid(move_number) == 2 * move_number + 1

\* the trading branch of DoApplyAction, for a decoded PlayerQuoteAction
TradingBranch(s, customer_quote) ==
    LET customer_id == CurrentPlayer(s)
        bid == MarketAddOrder(s.buy_orders_, s.sell_orders_,
                   OrderEntry(customer_quote.bid_price_,
                       customer_quote.bid_size_, BidTid(s.move_number_),
                       customer_id, TRUE))
        ask == MarketAddOrder(bid.buy, bid.sell,
                   OrderEntry(customer_quote.ask_price_,
                       customer_quote.ask_size_, AskTid(s.move_number_),
                       customer_id, FALSE))
        fills == bid.trades \o ask.trades
        quotes == Append(s.player_quotes_, <<customer_id, customer_quote>>)
    IN  IF bid.fatal
        THEN [s EXCEPT !.player_quotes_ = quotes, !.buy_orders_ = bid.buy,
                       !.sell_orders_ = bid.sell, !.fatal = "SpielFatalError"]
        ELSE IF ask.fatal
        THEN [s EXCEPT !.player_quotes_ = quotes, !.buy_orders_ = ask.buy,
                       !.sell_orders_ = ask.sell, !.fatal = "SpielFatalError"]
        ELSE [s EXCEPT !.player_quotes_ = quotes, !.buy_orders_ = ask.buy,
                       !.sell_orders_ = ask.sell,
                       !.order_fills_ = s.order_fills_ \o fills,
                       !.player_positions_ =
                           ApplyFills(s.player_positions_, fills)]

\* the alternative that std::get<T> asks for in each branch of DoApplyAction
VariantOfMove(move_number) ==
    IF move_number < 2 THEN "ChanceContractValueAction"
    ELSE IF move_number = 2 THEN "ChanceHighLowAction"
    ELSE IF move_number = 3 THEN "ChancePermutationAction"
    ELSE IF move_number < MaxChanceNodesInHistory
         THEN "ChanceCustomerSizeAction"
    ELSE "PlayerQuoteAction"

\* the player a customer-size draw at move_number gives its target to
CustomerPlayerId(s) == s.player_permutation_.permutation_[s.move_number_ - 4 + 3 + 1]

\* the branches of DoApplyAction, once the action is decoded to the
\* alternative its branch asks for
StoreAction(s, a) ==
    IF s.move_number_ < 2
    THEN [s EXCEPT !.contract_values_[s.move_number_ + 1] = a.contract_value_]
    ELSE IF s.move_number_ = 2
    THEN [s EXCEPT !.contract_high_settle_ = a.is_high_]
    ELSE IF s.move_number_ = 3
    THEN [s EXCEPT !.player_permutation_ =
                       [player_roles_ |-> a.player_roles_,
                        permutation_ |-> a.permutation_]]
    ELSE IF s.move_number_ < MaxChanceNodesInHistory
    THEN [s EXCEPT !.player_target_positions_[CustomerPlayerId(s) + 1] =
                       a.customer_size_]
    ELSE TradingBranch(s, a)

\* DoApplyAction that wraps the move into the range of the phase instead of
\* checking it
DoApplyActionWrapped(s, move) ==
    LET game_phase == game_phase_of_timestep(s.move_number_)
    IN  IF ~(s.move_number_ < MaxGameLength)
        THEN [s EXCEPT !.fatal = "SpielFatalError"]
        ELSE IF game_phase \notin ActionPhases
        THEN [s EXCEPT !.fatal = "SpielFatalError"]
        ELSE LET structured_action ==
                     RawToStructuredAction(game_phase,
                         move % (valid_action_range(game_phase)[2] + 1))
             IN  IF structured_action.type # VariantOfMove(s.move_number_)
                 THEN [s EXCEPT !.fatal = "bad_variant_access"]
                 ELSE StoreAction(s, structured_action)

\* HighLowTradingState::DoApplyAction: the state after the call; fatal tells
\* how the call ended when it did not return
DoApplyAction(s, move) ==
    LET game_phase == game_phase_of_timestep(s.move_number_)
    IN  IF ~(s.move_number_ < MaxGameLength)
        THEN [s EXCEPT !.fatal = "SpielFatalError"]
        ELSE IF game_phase \notin ActionPhases
        THEN [s EXCEPT !.fatal = "SpielFatalError"]
        ELSE IF valid_action_range(game_phase)[2] < 0
        THEN [s EXCEPT !.fatal = "SpielFatalError"]
        ELSE IF ~(move <= valid_action_range(game_phase)[2])
        THEN [s EXCEPT !.fatal = "SpielFatalError"]
        ELSE LET structured_action == RawToStructuredAction(game_phase, move)
             IN  IF structured_action.type = "SpielFatalError"
                 THEN [s EXCEPT !.fatal = "SpielFatalError"]
                 ELSE IF structured_action.type # VariantOfMove(s.move_number_)
                 THEN [s EXCEPT !.fatal = "bad_variant_access"]
                 ELSE StoreAction(s, structured_action)

\* what State::ApplyAction does once DoApplyAction has returned t from s, as
\* the replay loop of UndoAction spells it out: history_.push_back, then
\* ++move_number_
FinishApply(s, t, move) ==
    IF t.fatal # "none" THEN t
    ELSE [t EXCEPT !.history_ = Append(s.history_, <<CurrentPlayer(s), move>>),
                   !.move_number_ = s.move_number_ + 1]

\* State::ApplyAction: DoApplyAction, then the history and the move number
ApplyActionTo(s, move) == FinishApply(s, DoApplyAction(s, move), move)

\* a sequence of ApplyAction calls: a call that ends in an error ends the
\* sequence, the actions after it are not applied
RECURSIVE Replay(_, _)
Replay(s, actions) ==
    IF actions = <<>> \/ s.fatal # "none" THEN s
    ELSE Replay(ApplyActionTo(s, Head(actions)), Tail(actions))

\* UndoAction: "Replay all actions from saved history", from the reset state
RECURSIVE ReplayHistory(_, _)
ReplayHistory(s, saved_history) ==
    IF saved_history = <<>> THEN s
    ELSE LET player_action == Head(saved_history)
             t == DoApplyAction(s, player_action[2])
         IN  IF t.fatal # "none" THEN t
             ELSE ReplayHistory(
                      [t EXCEPT !.history_ = Append(s.history_, player_action),
                                !.move_number_ = s.move_number_ + 1],
                      Tail(saved_history))

\* HighLowTradingState::UndoAction
UndoAction(s, player, move) ==
    IF s.history_ = <<>> THEN [s EXCEPT !.fatal = "SpielFatalError"]
    ELSE IF s.history_[Len(s.history_)][1] # player
    THEN [s EXCEPT !.fatal = "SpielFatalError"]
    ELSE IF s.history_[Len(s.history_)][2] # move
    THEN [s EXCEPT !.fatal = "SpielFatalError"]
    ELSE ReplayHistory(NewInitialState,
             SubSeq(s.history_, 1, Len(s.history_) - 1))

\* HighLowTradingGame::MaxUtility
MaxUtility ==
    (MaxContractValue - 1) * MaxContractsPerTrade * steps_per_player_ * NumPlayers

\* HighLowTradingGame::MinUtility
MinUtility == -MaxUtility

\* HighLowTradingGame::NumDistinctActions
NumDistinctActions == valid_action_range("kPlayerTrading")[2] + 1

\* HighLowTradingGame::InformationStateTensorShape
InformationStateTensorShape ==
    11 + steps_per_player_ * NumPlayers * 6 + NumPlayers * 2

\* the entries of the tensor: static_cast<float> of an integer, and the sine
\* and cosine of the angle 2 pi player / num_players
Float(n) == <<"float", n>>
Sin(player) == <<"sin", player>>
Cos(player) == <<"cos", player>>

\* InformationStateTensor 1.: the game setup
TensorSetup ==
    <<Float(steps_per_player_), Float(MaxContractsPerTrade),
      Float(CustomerMaxSize), Float(MaxContractValue), Float(NumPlayers)>>

\* InformationStateTensor 2.: the one-hot role of the observer
TensorRole(s, player) ==
    IF s.move_number_ >= MaxChanceNodesInHistory
    THEN LET my_role == s.player_permutation_.player_roles_[player + 1]
         IN  <<Float(IF my_role = "kValueCheater" THEN 1 ELSE 0),
               Float(IF my_role = "kHighLowCheater" THEN 1 ELSE 0),
               Float(IF my_role = "kCustomer" THEN 1 ELSE 0)>>
    ELSE <<Float(0), Float(0), Float(0)>>

\* InformationStateTensor 4.: "Find the permutation id for this player"
PermutationIdOf(s, player) ==
    LET found == {j \in 0 .. NumPlayers - 1 :
                     s.player_permutation_.permutation_[j + 1] = player}
    IN  IF found = {} THEN -1
        ELSE CHOOSE j \in found : \A k \in found : j <= k

\* InformationStateTensor 4.: the private information of the observer
TensorPrivate(s, player) ==
    IF s.move_number_ >= MaxChanceNodesInHistory
    THEN LET my_role == s.player_permutation_.player_roles_[player + 1]
             permutation_id == PermutationIdOf(s, player)
         IN  IF my_role = "kValueCheater"
             THEN IF permutation_id >= 0 /\ permutation_id <= 1
                  THEN Float(s.contract_values_[permutation_id + 1])
                  ELSE Float(0)
             ELSE IF my_role = "kHighLowCheater"
             THEN Float(IF s.contract_high_settle_ THEN 1 ELSE -1)
             ELSE Float(s.player_target_positions_[player + 1])
    ELSE Float(0)

\* InformationStateTensor 5.: the positions of all players
RECURSIVE TensorPositions(_, _)
TensorPositions(s, p) ==
    IF p >= NumPlayers THEN <<>>
    ELSE <<Float(s.player_positions_[p + 1].num_contracts),
           Float(s.player_positions_[p + 1].cash_balance)>>
         \o TensorPositions(s, p + 1)

\* InformationStateTensor 6.: one logged quote
TensorQuote(quote_pair) ==
    <<Float(quote_pair[2].bid_price_), Float(quote_pair[2].ask_price_),
      Float(quote_pair[2].bid_size_), Float(quote_pair[2].ask_size_),
      Sin(quote_pair[1]), Cos(quote_pair[1])>>

\* InformationStateTensor 6.: the quote loop, writing six entries per quote
\* from offset on; the check of the room, failing at the first quote that
\* does not fit, ends the process with the earlier quotes written
TensorQuotes(s, offset, buffer) ==
    LET room == IF Len(buffer) >= offset
                THEN (Len(buffer) - offset) \div 6 ELSE 0
        written == Min(Len(s.player_quotes_), room)
    IN  [fatal |-> IF Len(s.player_quotes_) > room
                   THEN "SpielFatalError" ELSE "none",
         values |->
             [i \in 1 .. Len(buffer) |->
                 IF i > offset /\ i <= offset + 6 * written
                 THEN TensorQuote(s.player_quotes_[((i - offset - 1) \div 6) + 1])
                          [((i - offset - 1) % 6) + 1]
                 ELSE buffer[i]]]

\* HighLowTradingState::InformationStateTensor, writing into the buffer
\* values; a buffer shorter than the fixed part is undefined behaviour the
\* callers of the game never produce
InformationStateTensor(s, player, buffer) ==
    IF ~(player >= 0) \/ ~(player < NumPlayers)
    THEN [fatal |-> "SpielFatalError", values |-> buffer]
    ELSE LET fixed == TensorSetup \o TensorRole(s, player)
                          \o <<Sin(player), Cos(player)>>
                          \o <<TensorPrivate(s, player)>>
                          \o TensorPositions(s, 0)
             filled == [i \in 1 .. Len(buffer) |->
                           IF i <= Len(fixed) THEN fixed[i] ELSE Float(0)]
         IN  TensorQuotes(s, Len(fixed), filled)

\* InformationStateString: the lines "My role: ..." and the private line of
\* the role, or how the check of the role's permutation id ended the process
PrivateLines(s, player, permutation_id) ==
    LET my_role == s.player_permutation_.player_roles_[player + 1]
    IN  IF my_role = "kValueCheater"
        THEN IF ~(permutation_id >= 0) \/ ~(permutation_id <= 1)
             THEN [fatal |-> "SpielFatalError",
                   result |-> <<<<"My role: ", "ValueCheater">>>>]
             ELSE [fatal |-> "none",
                   result |->
                       <<<<"My role: ", "ValueCheater">>,
                         <<"Candidate contract value: ",
                           ToString(s.contract_values_[permutation_id + 1])>>>>]
        ELSE IF my_role = "kHighLowCheater"
        THEN IF permutation_id # 2
             THEN [fatal |-> "SpielFatalError",
                   result |-> <<<<"My role: ", "HighLowCheater">>>>]
             ELSE [fatal |-> "none",
                   result |->
                       <<<<"My role: ", "HighLowCheater">>,
                         <<"Settlement will be: ",
                           IF s.contract_high_settle_ THEN "High" ELSE "Low">>>>]
        ELSE [fatal |-> "none",
              result |->
                  <<<<"My role: ", "Customer">>,
                    IF s.player_target_positions_[player + 1] # 0
                    THEN <<"My target position: ",
                           ToString(s.player_target_positions_[player + 1])>>
                    ELSE <<"Not supposed to happen. Customer target position should not be 0 ",
                           "">>>>]

\* HighLowTradingState::InformationStateString: the lines of the string, the
\* text PublicInformationString renders from the configuration, the logs,
\* the positions and the book standing as one line
InformationStateString(s, player) ==
    LET header == <<<<"********** Private Information **********", "">>>>
        permutation_id == PermutationIdOf(s, player)
    IN  IF ~(player >= 0) \/ ~(player < NumPlayers)
        THEN [fatal |-> "SpielFatalError", result |-> <<>>]
        ELSE IF ~(permutation_id # -1)
        THEN [fatal |-> "SpielFatalError", result |-> header]
        ELSE IF s.move_number_ >= MaxChanceNodesInHistory
        THEN LET private == PrivateLines(s, player, permutation_id)
             IN  IF private.fatal # "none"
                 THEN [fatal |-> private.fatal,
                       result |-> header \o private.result]
                 ELSE [fatal |-> "none",
                       result |-> header \o private.result
                                    \o <<<<"PublicInformationString", "">>,
                                         <<"***************************", "">>>>]
        ELSE [fatal |-> "none",
              result |-> header
                           \o <<<<"Private info pending...", "">>,
                                <<"***************************", "">>>>]

(***************************************************************************)
(* The game: NewInitialState, then ApplyAction on legal actions.           *)
(***************************************************************************)
NoOrder == OrderEntry(0, 0, 0, 0, TRUE)

NoBook == [buy |-> <<>>, sell |-> <<>>]

NoCall == [op |-> "none"]

NoTensor == [player |-> -1, values |-> <<>>]

NoString == [player |-> -1, result |-> <<>>]

CallIdle ==
    /\ next_tid = 2 * MaxChanceNodesInHistory
    /\ last_order = NoOrder
    /\ last_fills = <<>>
    /\ book_before = NoBook
    /\ returns = <<>>
    /\ values = NoTensor
    /\ orders_ = <<>>
    /\ info_string_ = NoString

SetState(t) ==
    /\ steps_per_player_' = steps_per_player_
    /\ move_number_' = t.move_number_
    /\ contract_values_' = t.contract_values_
    /\ contract_high_settle_' = t.contract_high_settle_
    /\ player_permutation_' = t.player_permutation_
    /\ player_quotes_' = t.player_quotes_
    /\ player_positions_' = t.player_positions_
    /\ player_target_positions_' = t.player_target_positions_
    /\ order_fills_' = t.order_fills_
    /\ buy_orders_' = t.buy_orders_
    /\ sell_orders_' = t.sell_orders_
    /\ fatal' = t.fatal
    /\ history_' = t.history_

StateIs(t) ==
    /\ move_number_ = t.move_number_
    /\ contract_values_ = t.contract_values_
    /\ contract_high_settle_ = t.contract_high_settle_
    /\ player_permutation_ = t.player_permutation_
    /\ player_quotes_ = t.player_quotes_
    /\ player_positions_ = t.player_positions_
    /\ player_target_positions_ = t.player_target_positions_
    /\ order_fills_ = t.order_fills_
    /\ buy_orders_ = t.buy_orders_
    /\ sell_orders_ = t.sell_orders_
    /\ fatal = t.fatal
    /\ history_ = t.history_

Init ==
    /\ steps_per_player_ \in 0 .. StepsPerPlayer
    /\ StateIs(NewInitialState)
    /\ CallIdle
    /\ codec = NoCall

\* State::ApplyAction with an action of LegalActions()
ApplyAction ==
    /\ fatal = "none"
    /\ \E move \in LegalActions(State) : SetState(ApplyActionTo(State, move))
    /\ UNCHANGED <<callVars, codec>>

Next == ApplyAction

Spec == Init /\ [][Next]_vars

(***************************************************************************)
(* The game with UndoAction of the last action.                            *)
(***************************************************************************)
Undo ==
    /\ fatal = "none"
    /\ history_ # <<>>
    /\ SetState(UndoAction(State, history_[Len(history_)][1],
                           history_[Len(history_)][2]))
    /\ UNCHANGED <<callVars, codec>>

NextUndo == ApplyAction \/ Undo

SpecUndo == Init /\ [][NextUndo]_vars

(***************************************************************************)
(* The game observed: InformationStateTensor of any player at any state of *)
(* the game, into a buffer of the game's tensor shape; a behaviour ends    *)
(* with the observation.                                                   *)
(***************************************************************************)
\* the initial state of a game of StepsPerPlayer steps per player
InitObserve ==
    /\ steps_per_player_ = StepsPerPlayer
    /\ StateIs(NewInitialState)
    /\ CallIdle
    /\ codec = NoCall

CallInformationStateTensor ==
    /\ fatal = "none"
    /\ values = NoTensor
    /\ \E player \in 0 .. NumPlayers - 1 :
          LET t == InformationStateTensor(State, player,
                       [i \in 1 .. InformationStateTensorShape |-> Float(1)])
          IN  /\ values' = [player |-> player, values |-> t.values]
              /\ fatal' = t.fatal
    /\ UNCHANGED <<steps_per_player_, move_number_, contract_values_,
                   contract_high_settle_,
                   player_permutation_, player_quotes_, player_positions_,
                   player_target_positions_, order_fills_, buy_orders_,
                   sell_orders_, history_, next_tid, last_order, last_fills,
                   book_before, returns, codec, orders_,
                   info_string_>>

ObservedApplyAction ==
    /\ values = NoTensor
    /\ ApplyAction

NextObserve == ObservedApplyAction \/ CallInformationStateTensor

SpecObserve == InitObserve /\ [][NextObserve]_vars

(***************************************************************************)
(* The game observed: InformationStateString of any player at any state of *)
(* the game; a behaviour ends with the observation.                        *)
(***************************************************************************)
CallInformationStateString ==
    /\ fatal = "none"
    /\ info_string_ = NoString
    /\ \E player \in 0 .. NumPlayers - 1 :
          LET t == InformationStateString(State, player)
          IN  /\ info_string_' = [player |-> player, result |-> t.result]
              /\ fatal' = t.fatal
    /\ UNCHANGED <<steps_per_player_, move_number_, contract_values_,
                   contract_high_settle_,
                   player_permutation_, player_quotes_, player_positions_,
                   player_target_positions_, order_fills_, buy_orders_,
                   sell_orders_, history_, next_tid, last_order, last_fills,
                   book_before, returns, values, codec, orders_>>

InformedApplyAction ==
    /\ info_string_ = NoString
    /\ ApplyAction

NextInform == InformedApplyAction \/ CallInformationStateString

SpecInform == Init /\ [][NextInform]_vars

(***************************************************************************)
(* The game with ApplyAction of raw actions outside the range of the       *)
(* phase of the move.                                                      *)
(***************************************************************************)
\* raw actions below and above the range DoApplyAction checks the move with
InvalidActions(s) ==
    LET game_phase == game_phase_of_timestep(s.move_number_)
    IN  IF game_phase \notin ActionPhases THEN {}
        ELSE {valid_action_range(game_phase)[1] - 2,
              valid_action_range(game_phase)[1] - 1,
              valid_action_range(game_phase)[2] + 1,
              valid_action_range(game_phase)[2] + 2}

ApplyInvalidAction ==
    /\ fatal = "none"
    /\ move_number_ < MaxGameLength
    /\ \E move \in InvalidActions(State) :
          SetState(ApplyActionTo(State, move))
    /\ UNCHANGED <<callVars, codec>>

NextInvalid == ApplyAction \/ ApplyInvalidAction

SpecInvalid == Init /\ [][NextInvalid]_vars

(***************************************************************************)
(* The game with the ids of quotes: every chance draw through ApplyAction, *)
(* then ApplyAction with every id of the range of kPlayerTrading at the    *)
(* states where a player is to move.                                       *)
(***************************************************************************)
ChanceStep ==
    /\ move_number_ < MaxChanceNodesInHistory
    /\ ApplyAction

TradingStep ==
    /\ fatal = "none"
    /\ move_number_ >= MaxChanceNodesInHistory
    /\ ~IsTerminal(State)
    /\ \E raw \in valid_action_range("kPlayerTrading")[1]
                    .. valid_action_range("kPlayerTrading")[2] :
          SetState(ApplyActionTo(State, raw))
    /\ UNCHANGED <<callVars, codec>>

NextTrading == ChanceStep \/ TradingStep

SpecTrading == Init /\ [][NextTrading]_vars

(***************************************************************************)
(* Whole games: the chance draws and the player moves through ApplyAction, *)
(* then Returns() at a terminal state.                                     *)
(***************************************************************************)
\* Returns() at a terminal state
CallReturns ==
    /\ fatal = "none"
    /\ IsTerminal(State)
    /\ returns = <<>>
    /\ returns' = Returns(State)
    /\ UNCHANGED <<gameVars, next_tid, last_order, last_fills, book_before,
                   codec, values, orders_, info_string_>>

NextPlay == ChanceStep \/ TradingStep \/ CallReturns

SpecPlay == Init /\ [][NextPlay]_vars

(***************************************************************************)
(* The matching engine alone: AddOrder calls with strictly increasing tids.*)
(***************************************************************************)
MaxOrders == 4
MaxPrice == 2
MaxOrderSize == 2

\* the tid of the first order the game submits: the bid of the first player
\* move
FirstTid == 2 * MaxChanceNodesInHistory

\* the owner of the order with tid t, as the game submits it: the player to
\* move at move t div 2 (tids 2m and 2m + 1 belong to the mover of move m)
OwnerOfTid(t) == ((t \div 2) - MaxChanceNodesInHistory) % NumPlayers

InitMarket ==
    /\ steps_per_player_ = StepsPerPlayer
    /\ StateIs(NewInitialState)
    /\ CallIdle
    /\ codec = NoCall

AddOrder ==
    /\ next_tid < FirstTid + MaxOrders
    /\ \E price \in 1 .. MaxPrice, size \in 0 .. MaxOrderSize,
          is_bid \in BOOLEAN :
          LET order == OrderEntry(price, size, next_tid,
                                  OwnerOfTid(next_tid), is_bid)
              r == MarketAddOrder(buy_orders_, sell_orders_, order)
          IN  /\ buy_orders_' = r.buy
              /\ sell_orders_' = r.sell
              /\ fatal' = IF r.fatal THEN "SpielFatalError" ELSE "none"
              /\ last_order' = order
              /\ last_fills' = r.trades
              /\ book_before' = [buy |-> buy_orders_, sell |-> sell_orders_]
    /\ next_tid' = next_tid + 1
    /\ UNCHANGED <<steps_per_player_, move_number_, contract_values_,
                   contract_high_settle_,
                   player_permutation_, player_quotes_, player_positions_,
                   player_target_positions_, order_fills_, codec, returns,
                   history_, values, orders_, info_string_>>

NextMarket == AddOrder

SpecMarket == InitMarket /\ [][NextMarket]_vars

(***************************************************************************)
(* The matching engine with ClearOrders: AddOrder calls of size 1 with     *)
(* strictly increasing tids, and ClearOrders calls of any customer.        *)
(***************************************************************************)
AddUnitOrder ==
    /\ next_tid < FirstTid + MaxOrders
    /\ \E price \in 1 .. MaxPrice, is_bid \in BOOLEAN :
          LET order == OrderEntry(price, 1, next_tid, OwnerOfTid(next_tid),
                                  is_bid)
              r == MarketAddOrder(buy_orders_, sell_orders_, order)
          IN  /\ buy_orders_' = r.buy
              /\ sell_orders_' = r.sell
              /\ fatal' = IF r.fatal THEN "SpielFatalError" ELSE "none"
              /\ last_order' = order
              /\ last_fills' = r.trades
              /\ book_before' = [buy |-> buy_orders_, sell |-> sell_orders_]
    /\ next_tid' = next_tid + 1
    /\ codec' = [op |-> "AddOrder"]
    /\ UNCHANGED <<steps_per_player_, move_number_, contract_values_,
                   contract_high_settle_,
                   player_permutation_, player_quotes_, player_positions_,
                   player_target_positions_, order_fills_, returns,
                   history_, values, orders_, info_string_>>

ClearOrders ==
    /\ \E customer_id \in 0 .. NumPlayers - 1 :
          LET r == MarketClearOrders(buy_orders_, sell_orders_, customer_id)
          IN  /\ buy_orders_' = r.buy
              /\ sell_orders_' = r.sell
              /\ codec' = [op |-> "ClearOrders", customer_id |-> customer_id]
    /\ book_before' = [buy |-> buy_orders_, sell |-> sell_orders_]
    /\ UNCHANGED <<steps_per_player_, move_number_, contract_values_,
                   contract_high_settle_,
                   player_permutation_, player_quotes_, player_positions_,
                   player_target_positions_, order_fills_, fatal, next_tid,
                   last_order, last_fills, returns, history_, values,
                   orders_, info_string_>>

NextClear == AddUnitOrder \/ ClearOrders

SpecClear == InitMarket /\ [][NextClear]_vars

(***************************************************************************)
(* The matching engine with the orders it was given kept: AddOrder calls   *)
(* of nonzero size with increasing tids, kept in orders_ in call order.     *)
(***************************************************************************)
AddLoggedOrder ==
    /\ next_tid < FirstTid + MaxOrders
    /\ \E price \in 1 .. MaxPrice, size \in 1 .. MaxOrderSize,
          is_bid \in BOOLEAN :
          LET order == OrderEntry(price, size, next_tid,
                                  OwnerOfTid(next_tid), is_bid)
              r == MarketAddOrder(buy_orders_, sell_orders_, order)
          IN  /\ buy_orders_' = r.buy
              /\ sell_orders_' = r.sell
              /\ fatal' = IF r.fatal THEN "SpielFatalError" ELSE "none"
              /\ last_order' = order
              /\ last_fills' = r.trades
              /\ book_before' = [buy |-> buy_orders_, sell |-> sell_orders_]
              /\ orders_' = Append(orders_, order)
    /\ next_tid' = next_tid + 1
    /\ UNCHANGED <<steps_per_player_, move_number_, contract_values_,
                   contract_high_settle_,
                   player_permutation_, player_quotes_, player_positions_,
                   player_target_positions_, order_fills_, codec, returns,
                   history_, values, info_string_>>

NextOrders == AddLoggedOrder

SpecOrders == InitMarket /\ [][NextOrders]_vars

(***************************************************************************)
(* The matching engine given the orders of the players' quotes: AddOrder   *)
(* calls with the bid and then the ask of the moves from                   *)
(* MaxChanceNodesInHistory on, each with the tid and the owner the game    *)
(* gives it, kept in orders_ in call order.                                *)
(***************************************************************************)
AddQuoteOrder ==
    /\ fatal = "none"
    /\ Len(orders_) < MaxOrders
    /\ \E price \in 1 .. MaxPrice, size \in 0 .. MaxOrderSize :
          LET move_number == MaxChanceNodesInHistory + (Len(orders_) \div 2)
              is_bid == Len(orders_) % 2 = 0
              order == OrderEntry(price, size,
                           IF is_bid THEN BidTid(move_number)
                           ELSE AskTid(move_number),
                           OwnerOfTid(BidTid(move_number)), is_bid)
              r == MarketAddOrder(buy_orders_, sell_orders_, order)
          IN  /\ buy_orders_' = r.buy
              /\ sell_orders_' = r.sell
              /\ fatal' = IF r.fatal THEN "SpielFatalError" ELSE "none"
              /\ last_order' = order
              /\ last_fills' = r.trades
              /\ book_before' = [buy |-> buy_orders_, sell |-> sell_orders_]
              /\ orders_' = Append(orders_, order)
    /\ next_tid' = next_tid + 1
    /\ UNCHANGED <<steps_per_player_, move_number_, contract_values_,
                   contract_high_settle_,
                   player_permutation_, player_quotes_, player_positions_,
                   player_target_positions_, order_fills_, codec, returns,
                   history_, values, info_string_>>

NextQuoteOrders == AddQuoteOrder

SpecQuoteOrders == InitMarket /\ [][NextQuoteOrders]_vars

(***************************************************************************)
(* The codec alone: one call per behaviour, its argument drawn in Init.    *)
(***************************************************************************)
CodecCalls ==
    {[op |-> "game_phase_of_timestep", timestep |-> t] :
        t \in 0 .. (MaxGameLength + NumPlayers)}
    \cup
    {[op |-> "RawToStructuredAction", phase |-> ph, raw_action |-> k] :
        ph \in ActionPhases,
        k \in 0 .. (factorial(NumPlayers)
                     + (MaxContractsPerTrade + 1) * (MaxContractsPerTrade + 1)
                         * MaxContractValue * MaxContractValue)}

InitCodec ==
    /\ steps_per_player_ = StepsPerPlayer
    /\ StateIs(NewInitialState)
    /\ CallIdle
    /\ codec \in {c \in CodecCalls :
                    c.op = "RawToStructuredAction" =>
                        c.raw_action <= valid_action_range(c.phase)[2]}

PhaseOfTimestep ==
    /\ codec.op = "game_phase_of_timestep"
    /\ codec' = [op |-> "phase", timestep |-> codec.timestep,
                 phase |-> game_phase_of_timestep(codec.timestep)]
    /\ UNCHANGED <<gameVars, callVars>>

Decode ==
    /\ codec.op = "RawToStructuredAction"
    /\ codec' = [op |-> "StructuredToRawAction", phase |-> codec.phase,
                 raw_action |-> codec.raw_action,
                 structured_action |->
                     RawToStructuredAction(codec.phase, codec.raw_action)]
    /\ UNCHANGED <<gameVars, callVars>>

Encode ==
    /\ codec.op = "StructuredToRawAction"
    /\ codec.structured_action.type = VariantOfPhase(codec.phase)
    /\ codec' = [op |-> "raw", phase |-> codec.phase,
                 raw_action |-> codec.raw_action,
                 structured_action |-> codec.structured_action,
                 reverse_raw_action |->
                     StructuredToRawAction(codec.phase,
                                           codec.structured_action)]
    /\ UNCHANGED <<gameVars, callVars>>

NextCodec == PhaseOfTimestep \/ Decode \/ Encode

SpecCodec == InitCodec /\ [][NextCodec]_vars

(***************************************************************************)
(* The codec from the structured side: an action of the data model is      *)
(* encoded, and the id decoded again.                                      *)
(***************************************************************************)
\* the permutations of [0, n) as vectors
PermutationsOf(n) ==
    {p \in [1 .. n -> 0 .. (n - 1)] :
        \A i, j \in 1 .. n : p[i] = p[j] => i = j}

\* the sizes a quote can hold: what the header documents and what
\* RawToStructuredAction returns
QuoteSizes == (0 .. CustomerMaxSize) \cup (0 .. MaxContractsPerTrade)

\* the structured actions of a phase: the fields of the action classes,
\* within the ranges the header documents (quote prices from 0), and every
\* action RawToStructuredAction returns (the customer size
\* CustomerMaxSize + 1 of the top id)
StructuredActions(phase) ==
    CASE phase = "kChanceValue" ->
           {[type |-> "ChanceContractValueAction", contract_value_ |-> v] :
               v \in 1 .. MaxContractValue}
      [] phase = "kChanceHighLow" ->
           {[type |-> "ChanceHighLowAction", is_high_ |-> b] : b \in BOOLEAN}
      [] phase = "kChancePermutation" ->
           {[type |-> "ChancePermutationAction",
             player_roles_ |-> [i \in 1 .. NumPlayers |-> RoleOfPermId(p[i])],
             permutation_ |-> p] : p \in PermutationsOf(NumPlayers)}
      [] phase = "kCustomerSize" ->
           {[type |-> "ChanceCustomerSizeAction", customer_size_ |-> z] :
               z \in (-CustomerMaxSize .. (CustomerMaxSize + 1)) \ {0}}
      [] phase = "kPlayerTrading" ->
           {[type |-> "PlayerQuoteAction", bid_size_ |-> bs, bid_price_ |-> bp,
             ask_size_ |-> as, ask_price_ |-> ap] :
               bs \in QuoteSizes, bp \in 0 .. MaxContractValue,
               as \in QuoteSizes, ap \in 0 .. MaxContractValue}

InitEncode ==
    /\ steps_per_player_ = StepsPerPlayer
    /\ StateIs(NewInitialState)
    /\ CallIdle
    /\ codec \in UNION {{[op |-> "encode", phase |-> ph,
                           structured_action |-> a] :
                              a \in StructuredActions(ph)} :
                                 ph \in ActionPhases}

EncodeStructured ==
    /\ codec.op = "encode"
    /\ codec' = [op |-> "decode", phase |-> codec.phase,
                 structured_action |-> codec.structured_action,
                 raw_action |->
                     StructuredToRawAction(codec.phase,
                                           codec.structured_action)]
    /\ UNCHANGED <<gameVars, callVars>>

DecodeEncoded ==
    /\ codec.op = "decode"
    /\ codec' = [op |-> "structured", phase |-> codec.phase,
                 structured_action |-> codec.structured_action,
                 raw_action |-> codec.raw_action,
                 reverse_structured_action |->
                     RawToStructuredAction(codec.phase, codec.raw_action)]
    /\ UNCHANGED <<gameVars, callVars>>

NextEncode == EncodeStructured \/ DecodeEncoded

SpecEncode == InitEncode /\ [][NextEncode]_vars

(***************************************************************************)
(* nth_permutation and permutation_rank alone, called one after the other  *)
(* in both orders.                                                         *)
(***************************************************************************)
MaxPermutationSize == 4

InitPermutation ==
    /\ steps_per_player_ = StepsPerPlayer
    /\ StateIs(NewInitialState)
    /\ CallIdle
    /\ codec \in
          UNION {{[op |-> "nth_permutation", n |-> n, x |-> x] :
                     x \in 0 .. (factorial(n) - 1)} :
                        n \in 1 .. MaxPermutationSize}
          \cup
          UNION {{[op |-> "permutation_rank", n |-> n, perm |-> p] :
                     p \in PermutationsOf(n)} : n \in 1 .. MaxPermutationSize}

\* perm = nth_permutation(rank, n); recovered_rank = permutation_rank(perm)
NthPermutation ==
    /\ codec.op = "nth_permutation"
    /\ codec' = [op |-> "recover_rank", n |-> codec.n, x |-> codec.x,
                 perm |-> nth_permutation(codec.x, codec.n)]
    /\ UNCHANGED <<gameVars, callVars>>

RecoverRank ==
    /\ codec.op = "recover_rank"
    /\ codec' = [op |-> "recovered_rank", n |-> codec.n, x |-> codec.x,
                 perm |-> codec.perm,
                 recovered_rank |-> permutation_rank(codec.perm)]
    /\ UNCHANGED <<gameVars, callVars>>

\* rank = permutation_rank(perm); recovered_perm = nth_permutation(rank, n)
PermutationRank ==
    /\ codec.op = "permutation_rank"
    /\ codec' = [op |-> "recover_perm", n |-> codec.n, perm |-> codec.perm,
                 rank |-> permutation_rank(codec.perm)]
    /\ UNCHANGED <<gameVars, callVars>>

RecoverPerm ==
    /\ codec.op = "recover_perm"
    /\ codec' = [op |-> "recovered_perm", n |-> codec.n, perm |-> codec.perm,
                 rank |-> codec.rank,
                 recovered_perm |-> nth_permutation(codec.rank, codec.n)]
    /\ UNCHANGED <<gameVars, callVars>>

NextPermutation ==
    NthPermutation \/ RecoverRank \/ PermutationRank \/ RecoverPerm

SpecPermutation == InitPermutation /\ [][NextPermutation]_vars

(***************************************************************************)
(* Properties                                                              *)
(***************************************************************************)
Range(seq) == {seq[i] : i \in 1 .. Len(seq)}

RECURSIVE SumSeq(_)
SumSeq(seq) == IF seq = <<>> THEN 0 ELSE Head(seq) + SumSeq(Tail(seq))

\* the legal phase map the documentation gives, with num_customers =
\* NumPlayers - 3
DocumentedPhase(m) ==
    LET num_customers == NumPlayers - 3
        total_moves == 4 + num_customers + steps_per_player_ * NumPlayers
    IN  IF m < 2 THEN "kChanceValue"
        ELSE IF m = 2 THEN "kChanceHighLow"
        ELSE IF m = 3 THEN "kChancePermutation"
        ELSE IF m < 4 + num_customers THEN "kCustomerSize"
        ELSE IF m < total_moves THEN "kPlayerTrading"
        ELSE "kTerminal"

\* C1: at every state that is not terminal, every action of LegalActions()
\* is applied by DoApplyAction without a fatal error, and is decoded to the
\* alternative the branch of its move number reads (a PlayerQuoteAction from
\* MaxChanceNodesInHistory on, the chance action of the move below it).
C1_LegalActionsApply ==
    (fatal = "none" /\ ~IsTerminal(State)) =>
        \A move \in LegalActions(State) :
            /\ RawToStructuredAction(game_phase_of_timestep(move_number_),
                                     move).type = VariantOfMove(move_number_)
            /\ DoApplyAction(State, move).fatal = "none"

\* C2: no play of legal actions stops before MaxGameLength moves: IsTerminal
\* is false below MaxGameLength and true at it, a state that is not terminal
\* has a legal action and applying it does not end the process, and the
\* terminal state has no legal action.
C2_PlaysReachTerminal ==
    /\ fatal = "none"
    /\ move_number_ <= MaxGameLength
    /\ IsTerminal(State) <=> (move_number_ = MaxGameLength)
    /\ IsTerminal(State) <=> (LegalActions(State) = {})

\* C3: game_phase_of_timestep(m), for m in [0, total_moves], is the phase
\* map of the documentation: kCustomerSize for 4 <= m < 4 + num_customers,
\* kPlayerTrading from 4 + num_customers, kTerminal at total_moves.
C3_PhaseOfTimestep ==
    (codec.op = "phase" /\ codec.timestep <= MaxGameLength) =>
        codec.phase = DocumentedPhase(codec.timestep)

\* C4: when the chance moves are done, a player's target is nonzero exactly
\* when the player's role is kCustomer.
C4_OnlyCustomersHaveTargets ==
    (move_number_ = MaxChanceNodesInHistory) =>
        \A j \in 1 .. NumPlayers :
            (player_target_positions_[j] # 0)
                <=> (player_permutation_.player_roles_[j] = "kCustomer")

\* the book opposite to the last order, as it was when AddOrder was called
OppositeBefore ==
    IF last_order.is_bid THEN book_before.sell ELSE book_before.buy

\* a goes before b in the price-time priority of their side
HasPriority(a, b) ==
    \/ (IF a.is_bid THEN a.price > b.price ELSE a.price < b.price)
    \/ (a.price = b.price /\ a.tid < b.tid)

RestingOf(fill) ==
    CHOOSE o \in Range(OppositeBefore) : o.tid = fill.quote_tid

\* C5: the resting orders one AddOrder call fills are filled in price-time
\* priority: each filled resting order goes before those filled after it and
\* before those left unfilled, by price and, at the same price, by lower tid.
C5_PriceTimePriority ==
    \A i \in 1 .. Len(last_fills) :
        /\ \E o \in Range(OppositeBefore) : o.tid = last_fills[i].quote_tid
        /\ \A j \in (i + 1) .. Len(last_fills) :
              /\ \E o \in Range(OppositeBefore) :
                    o.tid = last_fills[j].quote_tid
              /\ HasPriority(RestingOf(last_fills[i]),
                             RestingOf(last_fills[j]))
        /\ \A o \in Range(OppositeBefore) :
              (\A k \in 1 .. Len(last_fills) : last_fills[k].quote_tid # o.tid)
                  => HasPriority(RestingOf(last_fills[i]), o)

\* C6: the price of every fill is the price of the resting order it was
\* matched against (the order of the lower tid, in the book before the call).
C6_FillAtRestingPrice ==
    \A i \in 1 .. Len(last_fills) :
        \E o \in Range(OppositeBefore) :
            /\ o.tid = last_fills[i].quote_tid
            /\ o.tid < last_order.tid
            /\ last_fills[i].price = o.price

\* a fill at a price that is not the incoming order's price
C6_Witness ==
    /\ last_fills # <<>>
    /\ last_fills[1].price # last_order.price

Prices(book) == {o.price : o \in Range(book)}

BestBid(book) == CHOOSE p \in Prices(book) : \A q \in Prices(book) : q <= p

BestAsk(book) == CHOOSE p \in Prices(book) : \A q \in Prices(book) : p <= q

Uncrossed(buy, sell) ==
    buy = <<>> \/ sell = <<>> \/ BestBid(buy) < BestAsk(sell)

\* C7: after every AddOrder call one book is empty or the best bid is below
\* the best ask; and a call whose order leaves the books uncrossed when it is
\* added returns no fill.
C7_BookNeverCrossed ==
    /\ Uncrossed(buy_orders_, sell_orders_)
    /\ (\/ last_order.size = 0
        \/ Uncrossed(IF last_order.is_bid
                     THEN Append(book_before.buy, last_order)
                     ELSE book_before.buy,
                     IF last_order.is_bid THEN book_before.sell
                     ELSE Append(book_before.sell, last_order)))
           => last_fills = <<>>

\* a call that matched and left orders resting on both sides
C7_Witness ==
    /\ last_fills # <<>>
    /\ buy_orders_ # <<>>
    /\ sell_orders_ # <<>>

SumContracts(positions) ==
    SumSeq([j \in 1 .. NumPlayers |-> positions[j].num_contracts])

SumCash(positions) ==
    SumSeq([j \in 1 .. NumPlayers |-> positions[j].cash_balance])

\* a player is to move
PlayerToMove ==
    /\ fatal = "none"
    /\ move_number_ >= MaxChanceNodesInHistory
    /\ ~IsTerminal(State)

\* the ids of the quotes
QuoteIds ==
    valid_action_range("kPlayerTrading")[1]
      .. valid_action_range("kPlayerTrading")[2]

\* the state after ApplyAction with the id raw
Quoted(raw) == ApplyActionTo(State, raw)

\* the fills that the log of t holds after those of the state
FillsOf(t) ==
    SubSeq(t.order_fills_, Len(order_fills_) + 1, Len(t.order_fills_))

\* the fills of AddOrder calls with the orders of a list, in call order
RECURSIVE FillsOfCalls(_, _, _)
FillsOfCalls(buy, sell, orders) ==
    IF orders = <<>> THEN <<>>
    ELSE LET r == MarketAddOrder(buy, sell, Head(orders))
         IN  r.trades \o FillsOfCalls(r.buy, r.sell, Tail(orders))

\* the fills of all the calls so far
RunFills == FillsOfCalls(<<>>, <<>>, orders_)

\* the positions of the players after the game's fill loop has gone through
\* the fills of the calls so far, from the initial positions
Settled == ApplyFills(NewInitialState.player_positions_, RunFills)

\* a fill moves its two parties by opposite amounts (size contracts, price *
\* size cash) and no other player, and leaves both sums at 0
FillConserves(before, fill, after) ==
    LET c == fill.customer_id + 1
        q == fill.quoter_id + 1
    IN  /\ SumContracts(after) = 0
        /\ SumCash(after) = 0
        /\ \A j \in 1 .. NumPlayers :
              (j # c /\ j # q) => after[j] = before[j]
        /\ (c = q) => after = before
        /\ (c # q) =>
              /\ after[c].num_contracts - before[c].num_contracts
                   = before[q].num_contracts - after[q].num_contracts
              /\ after[c].cash_balance - before[c].cash_balance
                   = before[q].cash_balance - after[q].cash_balance
              /\ after[c].num_contracts - before[c].num_contracts
                   \in {fill.size, 0 - fill.size}
              /\ after[c].cash_balance - before[c].cash_balance
                   \in {fill.price * fill.size, 0 - fill.price * fill.size}

\* every fill of a list conserves, the game's fill loop going through the
\* list from the given positions
RECURSIVE FillsConserve(_, _)
FillsConserve(positions, fills) ==
    \/ fills = <<>>
    \/ /\ FillConserves(positions, Head(fills),
                         ApplyFill(positions, Head(fills)))
       /\ FillsConserve(ApplyFill(positions, Head(fills)), Tail(fills))

\* C8: after any sequence of AddOrder calls with the orders of the players'
\* quotes, whose fills are settled by the game's fill loop, the players'
\* contracts sum to 0 and their cash sums to 0; each fill moves its two
\* parties by opposite amounts (size contracts, price * size cash) and no
\* other player.
C8_PositionsConserved ==
    /\ SumContracts(player_positions_) = 0
    /\ SumCash(player_positions_) = 0
    /\ SumContracts(Settled) = 0
    /\ SumCash(Settled) = 0
    /\ FillsConserve(NewInitialState.player_positions_, RunFills)

\* a run with several fills, one of them between two different players, that
\* leaves a player long and another short
C8_Witness ==
    /\ Len(RunFills) >= 2
    /\ \E n \in 1 .. Len(RunFills) :
          RunFills[n].customer_id # RunFills[n].quoter_id
    /\ \E j1, j2 \in 1 .. NumPlayers :
          /\ Settled[j1].num_contracts > 0
          /\ Settled[j2].num_contracts < 0
          /\ Settled[j1].cash_balance < 0
          /\ Settled[j2].cash_balance > 0

\* the sizes of the fills of the last call
FillSizes == [k \in 1 .. Len(last_fills) |-> last_fills[k].size]

\* what the last call filled of the order with tid t
FilledOf(t) ==
    IF t = last_order.tid THEN SumSeq(FillSizes)
    ELSE SumSeq([k \in 1 .. Len(last_fills) |->
                    IF last_fills[k].quote_tid = t THEN last_fills[k].size
                    ELSE 0])

\* the orders the last call worked on: the books before it and its order
OrdersOfCall ==
    Range(book_before.buy) \cup Range(book_before.sell)
        \cup (IF last_order.size > 0 THEN {last_order} ELSE {})

\* C9: each fill has the size min(resting size, what is left of the incoming
\* order); every order keeps its book, price and tid with its size reduced by
\* what was filled of it, and leaves the book when nothing is left.
C9_FillSizesAndResiduals ==
    /\ \A i \in 1 .. Len(last_fills) :
          \E o \in Range(OppositeBefore) :
              /\ o.tid = last_fills[i].quote_tid
              /\ last_fills[i].size =
                     Min(o.size,
                         last_order.size
                           - SumSeq(SubSeq(FillSizes, 1, i - 1)))
    /\ \A o \in OrdersOfCall :
          LET residual == o.size - FilledOf(o.tid)
              own == IF o.is_bid THEN buy_orders_ ELSE sell_orders_
          IN  IF residual > 0
              THEN [o EXCEPT !.size = residual] \in Range(own)
              ELSE \A x \in Range(buy_orders_) \cup Range(sell_orders_) :
                      x.tid # o.tid
    /\ Len(buy_orders_) + Len(sell_orders_)
         = Cardinality({o \in OrdersOfCall : o.size - FilledOf(o.tid) > 0})

\* a partial fill: one fill, and the rest of the incoming bid rests
C9_Witness ==
    /\ Len(last_fills) = 1
    /\ last_order.is_bid
    /\ last_fills[1].size < last_order.size
    /\ [last_order EXCEPT !.size = last_order.size - last_fills[1].size]
         \in Range(buy_orders_)

\* C10: for every phase and every raw action in its range,
\* StructuredToRawAction(phase, RawToStructuredAction(phase, raw)) = raw.
C10_RawRoundTrip ==
    (codec.op = "raw") => codec.reverse_raw_action = codec.raw_action

\* the top id of kCustomerSize went through both conversions
C10_Witness ==
    /\ codec.op = "raw"
    /\ codec.phase = "kCustomerSize"
    /\ codec.raw_action = 2 * CustomerMaxSize

\* the data-model domain of a phase: contract value in 1 .. MaxContractValue,
\* customer size in -CustomerMaxSize .. CustomerMaxSize without 0, quote sizes
\* in 0 .. MaxContractsPerTrade and quote prices in 1 .. MaxContractValue
DataModelActions(phase) ==
    {a \in StructuredActions(phase) :
        CASE phase = "kCustomerSize" -> a.customer_size_ <= CustomerMaxSize
          [] phase = "kPlayerTrading" ->
               /\ a.bid_size_ <= MaxContractsPerTrade
               /\ a.ask_size_ <= MaxContractsPerTrade
               /\ a.bid_price_ >= 1
               /\ a.ask_price_ >= 1
          [] OTHER -> TRUE}

\* C11: every structured action of a phase's data-model domain encodes to an
\* id within the phase's legal range, and decoding that id gives the action
\* back.
C11_StructuredRoundTrip ==
    /\ (codec.op \in {"decode", "structured"}
          /\ codec.structured_action \in DataModelActions(codec.phase)) =>
          /\ codec.raw_action >= valid_action_range(codec.phase)[1]
          /\ codec.raw_action <= valid_action_range(codec.phase)[2]
    /\ (codec.op = "structured"
          /\ codec.structured_action \in DataModelActions(codec.phase)) =>
          codec.reverse_structured_action = codec.structured_action

C11_Witness ==
    /\ codec.op = "structured"
    /\ codec.phase = "kCustomerSize"
    /\ codec.structured_action.customer_size_ = CustomerMaxSize
    /\ codec.reverse_structured_action.customer_size_ = CustomerMaxSize

\* C12: every raw id of a phase's legal range, the top id 2 * CustomerMaxSize
\* of kCustomerSize included, decodes to an action of the data model: contract
\* value in 1 .. MaxContractValue, customer size in -CustomerMaxSize ..
\* CustomerMaxSize and not 0, quote sizes in 0 .. MaxContractsPerTrade and
\* quote prices in 1 .. MaxContractValue.
C12_DecodedInDomain ==
    (codec.op = "StructuredToRawAction"
       /\ codec.phase \in {"kChanceValue", "kCustomerSize", "kPlayerTrading"})
    => codec.structured_action \in DataModelActions(codec.phase)

\* C13: for every n in 1 .. MaxPermutationSize and every k in [0, n!),
\* nth_permutation(k, n) is a permutation of [0, n) whose permutation_rank is
\* k; and for every permutation p of [0, n), permutation_rank(p) lies in
\* [0, n!) and nth_permutation of it is p.
C13_PermutationInverse ==
    /\ codec.op \in {"recover_rank", "recovered_rank"} =>
          codec.perm \in PermutationsOf(codec.n)
    /\ codec.op = "recovered_rank" => codec.recovered_rank = codec.x
    /\ codec.op \in {"recover_perm", "recovered_perm"} =>
          codec.rank \in 0 .. (factorial(codec.n) - 1)
    /\ codec.op = "recovered_perm" => codec.recovered_perm = codec.perm

C13_Witness ==
    /\ codec.op = "recovered_perm"
    /\ codec.n = MaxPermutationSize
    /\ codec.perm = [i \in 1 .. MaxPermutationSize |-> MaxPermutationSize - i]
    /\ codec.rank = factorial(MaxPermutationSize) - 1
    /\ codec.recovered_perm = codec.perm

\* settlement value of the documentation: the larger of the two drawn values
\* when the draw was "high", the smaller otherwise
Settlement ==
    LET v1 == contract_values_[1]
        v2 == contract_values_[2]
    IN  IF contract_high_settle_ THEN (IF v1 >= v2 THEN v1 ELSE v2)
        ELSE (IF v1 <= v2 THEN v1 ELSE v2)

Abs(x) == IF x < 0 THEN -x ELSE x

\* the positions a player holds after one trade: up to MaxContractsPerTrade
\* contracts bought or sold at a price up to MaxContractValue
HeldPositions ==
    {[num_contracts |-> size, cash_balance |-> 0 - size * price] :
        size \in (0 - MaxContractsPerTrade) .. MaxContractsPerTrade,
        price \in 1 .. MaxContractValue}

\* the state with player j (from 1) holding a position
Holding(j, position) == [State EXCEPT !.player_positions_[j] = position]

\* the return of the documentation for a position and a target
DocumentedReturn(position, target) ==
    position.cash_balance + position.num_contracts * Settlement
      - (IF target # 0
         THEN Abs(target - position.num_contracts) * MaxContractValue
         ELSE 0)

\* C14: at a terminal state Returns()[j] is cash_j + contracts_j * settlement,
\* less |target_j - contracts_j| * MaxContractValue when target_j is not 0:
\* for the positions of the state, and for every position player j can hold
\* put in their place.
C14_ReturnsAtTerminal ==
    returns # <<>> =>
        /\ IsTerminal(State)
        /\ Len(returns) = NumPlayers
        /\ \A j \in 1 .. NumPlayers :
              /\ returns[j] = DocumentedReturn(player_positions_[j],
                                               player_target_positions_[j])
              /\ \A position \in HeldPositions :
                    PlayerReturn(Holding(j, position), j - 1)
                      = DocumentedReturn(position, player_target_positions_[j])

\* Returns() at a terminal state whose two contract values differ and that
\* settles low, where a customer that missed its target carries the penalty
\* and a player without a target does not; with one contract bought at the
\* higher value in the place of its position, that player's return is the
\* lower value less the higher
C14_Witness ==
    /\ returns # <<>>
    /\ contract_values_[1] # contract_values_[2]
    /\ ~contract_high_settle_
    /\ \E j \in 1 .. NumPlayers :
          /\ player_target_positions_[j] # 0
          /\ player_positions_[j].num_contracts # player_target_positions_[j]
          /\ returns[j] = -Abs(player_target_positions_[j]) * MaxContractValue
    /\ \E j \in 1 .. NumPlayers :
          /\ player_target_positions_[j] = 0
          /\ returns[j] = 0
          /\ \E position \in HeldPositions :
                /\ position.num_contracts = 1
                /\ position.cash_balance < 0
                /\ position.num_contracts * Settlement # 0
                /\ PlayerReturn(Holding(j, position), j - 1)
                     = position.cash_balance + Settlement
                /\ PlayerReturn(Holding(j, position), j - 1) < 0

\* the turn order of the documentation, with num_customers = NumPlayers - 3:
\* chance for the first 4 + num_customers moves, then the players in
\* round-robin order from player 0, then terminal
DocumentedPlayer(m) ==
    LET chance_moves == 4 + (NumPlayers - 3)
        total_moves == chance_moves + steps_per_player_ * NumPlayers
    IN  IF m < chance_moves THEN kChancePlayerId
        ELSE IF m < total_moves THEN (m - chance_moves) % NumPlayers
        ELSE kTerminalPlayerId

\* C15: CurrentPlayer() is the chance id before chance_moves, the player
\* (move_number - chance_moves) mod NumPlayers up to total_moves, and the
\* terminal id from total_moves on; in a play the i-th quote is player
\* (i - 1) mod NumPlayers's, and at the terminal state every player has quoted
\* exactly steps_per_player_ times.
C15_RoundRobin ==
    /\ \A m \in 0 .. (MaxGameLength + NumPlayers) :
          CurrentPlayer([State EXCEPT !.move_number_ = m]) = DocumentedPlayer(m)
    /\ \A i \in 1 .. Len(player_quotes_) :
          player_quotes_[i][1] = (i - 1) % NumPlayers
    /\ IsTerminal(State) =>
          \A j \in 0 .. (NumPlayers - 1) :
              Cardinality({i \in 1 .. Len(player_quotes_) :
                              player_quotes_[i][1] = j}) = steps_per_player_

\* the chance moves are over and player 0 is the one to move first
C15_Witness ==
    /\ fatal = "none"
    /\ steps_per_player_ > 0
    /\ move_number_ = MaxChanceNodesInHistory
    /\ Len(history_) = MaxChanceNodesInHistory
    /\ \A i \in 1 .. Len(history_) : history_[i][1] = kChancePlayerId
    /\ CurrentPlayer(State) = 0
    /\ ~IsTerminal(State)

\* the resting orders of both books
RestingOrders == Range(buy_orders_) \cup Range(sell_orders_)

\* the move whose quote the k-th order of a game comes from
MoveOfOrder(k) == MaxChanceNodesInHistory + ((k - 1) \div 2)

\* C16: the orders of a game have pairwise distinct tids, the bid of move m
\* has tid 2m and its ask 2m + 1, so that tids increase in submission order
\* with a move's bid before its ask; every resting order and every fill
\* carries the tid of the order it came from, and the engine's fatal error on
\* equal tids is never reached.
C16_TidsDistinct ==
    /\ fatal = "none"
    /\ \A k \in 1 .. Len(orders_) :
          /\ orders_[k].is_bid <=> k % 2 = 1
          /\ orders_[k].tid = IF orders_[k].is_bid THEN 2 * MoveOfOrder(k)
                              ELSE 2 * MoveOfOrder(k) + 1
          /\ orders_[k].customer_id
               = (MoveOfOrder(k) - MaxChanceNodesInHistory) % NumPlayers
    /\ \A k1, k2 \in 1 .. Len(orders_) :
          k1 < k2 => orders_[k1].tid < orders_[k2].tid
    /\ \A o1, o2 \in RestingOrders : o1.tid = o2.tid => o1 = o2
    /\ \A o \in RestingOrders :
          \E k \in 1 .. Len(orders_) :
              /\ o.tid = orders_[k].tid
              /\ o.is_bid = orders_[k].is_bid
              /\ o.price = orders_[k].price
              /\ o.customer_id = orders_[k].customer_id
    /\ \A n \in 1 .. Len(last_fills) :
          /\ last_fills[n].quote_tid # last_order.tid
          /\ \E k \in 1 .. (Len(orders_) - 1) :
                last_fills[n].quote_tid = orders_[k].tid

\* the ask of the second move fills against the bid of the same move, whose
\* tid is one less, with an order of the first move still resting
C16_Witness ==
    /\ fatal = "none"
    /\ Len(orders_) = 4
    /\ ~last_order.is_bid
    /\ last_fills # <<>>
    /\ last_fills[1].quote_tid = last_order.tid - 1
    /\ \E o \in RestingOrders : o.tid < last_order.tid - 1

\* the slots of a role vector holding a role
SlotsOf(roles, role) == {i \in 1 .. Len(roles) : roles[i] = role}

\* C17: for every permutation rank, the decoded role vector has exactly two
\* ValueCheaters, one HighLowCheater and NumPlayers - 3 Customers; slot i is a
\* ValueCheater iff perm[i] is 0 or 1, the HighLowCheater iff perm[i] = 2, and
\* a Customer otherwise.
C17_RoleCounts ==
    (codec.op = "StructuredToRawAction" /\ codec.phase = "kChancePermutation")
    => LET roles == codec.structured_action.player_roles_
           perm == codec.structured_action.permutation_
       IN  /\ Len(roles) = NumPlayers
           /\ Cardinality(SlotsOf(roles, "kValueCheater")) = 2
           /\ Cardinality(SlotsOf(roles, "kHighLowCheater")) = 1
           /\ Cardinality(SlotsOf(roles, "kCustomer")) = NumPlayers - 3
           /\ \A i \in 1 .. NumPlayers :
                 /\ roles[i] = "kValueCheater" <=> perm[i] \in {0, 1}
                 /\ roles[i] = "kHighLowCheater" <=> perm[i] = 2
                 /\ roles[i] = "kCustomer" <=> perm[i] >= 3

C17_Witness ==
    /\ codec.op = "StructuredToRawAction"
    /\ codec.phase = "kChancePermutation"
    /\ codec.raw_action = factorial(NumPlayers) - 1
    /\ codec.structured_action.player_roles_[1] = "kCustomer"
    /\ codec.structured_action.player_roles_[NumPlayers] = "kValueCheater"

\* the largest id of a phase, as the documentation lists them
DocumentedMaxId(phase) ==
    CASE phase = "kChanceValue" -> MaxContractValue - 1
      [] phase = "kChanceHighLow" -> 1
      [] phase = "kChancePermutation" -> factorial(NumPlayers) - 1
      [] phase = "kCustomerSize" -> 2 * CustomerMaxSize
      [] phase = "kPlayerTrading" ->
           (MaxContractsPerTrade + 1) * (MaxContractsPerTrade + 1)
             * MaxContractValue * MaxContractValue - 1

\* C18: at a state that is not terminal LegalActions() is the whole range
\* 0 .. max id of the phase of the current move index (the phase map of the
\* documentation, with kCustomerSize for the NumPlayers - 3 customers); at a
\* terminal state it is empty.
C18_LegalActionsOfPhase ==
    fatal = "none" =>
        IF move_number_ >= 4 + (NumPlayers - 3) + steps_per_player_ * NumPlayers
        THEN LegalActions(State) = {}
        ELSE LegalActions(State)
               = 0 .. DocumentedMaxId(DocumentedPhase(move_number_))

\* the quote with sizes 0 x 0 at the lowest prices
EmptyQuote ==
    [type |-> "PlayerQuoteAction", bid_size_ |-> 0, bid_price_ |-> 1,
     ask_size_ |-> 0, ask_price_ |-> 1]

\* C19: AddOrder with an order of size 0 returns no fill and leaves both books
\* as they were; the quote 0 x 0 of the player to move is applied and logged,
\* adds no fill, changes no position and leaves the market unchanged.
C19_ZeroSizeIsNoOp ==
    /\ \A price \in 1 .. MaxContractValue, is_bid \in BOOLEAN :
          MarketAddOrder(buy_orders_, sell_orders_,
              OrderEntry(price, 0, BidTid(move_number_), CurrentPlayer(State),
                         is_bid))
            = [buy |-> buy_orders_, sell |-> sell_orders_, trades |-> <<>>,
               fatal |-> FALSE]
    /\ PlayerToMove =>
          LET t == Quoted(StructuredToRawAction("kPlayerTrading", EmptyQuote))
          IN  /\ t.fatal = "none"
              /\ t.player_quotes_
                   = Append(player_quotes_, <<CurrentPlayer(State), EmptyQuote>>)
              /\ t.order_fills_ = order_fills_
              /\ t.player_positions_ = player_positions_
              /\ t.buy_orders_ = buy_orders_
              /\ t.sell_orders_ = sell_orders_

\* the owner of the bid-side order of a fill of the last call: the owner of
\* the incoming order if that is a bid, else of the resting order filled
BuyerOf(fill) ==
    IF last_order.is_bid THEN last_order.customer_id
    ELSE RestingOf(fill).customer_id

\* the owner of the ask-side order of a fill of the last call
SellerOf(fill) ==
    IF last_order.is_bid THEN RestingOf(fill).customer_id
    ELSE last_order.customer_id

\* one fill settled between the owners of its two orders
Transfer(positions, buyer, seller, price, size) ==
    [j \in 1 .. NumPlayers |->
        [num_contracts |->
            positions[j].num_contracts
              + (IF j = buyer + 1 THEN size ELSE 0)
              - (IF j = seller + 1 THEN size ELSE 0),
         cash_balance |->
            positions[j].cash_balance
              - (IF j = buyer + 1 THEN price * size ELSE 0)
              + (IF j = seller + 1 THEN price * size ELSE 0)]]

\* a fill of the last call is booked between the owners of its two orders
FillBooked(before, fill, after) ==
    LET buyer == BuyerOf(fill)
        seller == SellerOf(fill)
    IN  /\ \E o \in Range(OppositeBefore) : o.tid = fill.quote_tid
        /\ RestingOf(fill).is_bid # last_order.is_bid
        /\ after = Transfer(before, buyer, seller, fill.price, fill.size)
        /\ fill.is_sell_quote <=> last_order.is_bid
        /\ fill.is_sell_quote =>
              /\ fill.customer_id = buyer
              /\ fill.quoter_id = seller
        /\ ~fill.is_sell_quote =>
              /\ fill.customer_id = seller
              /\ fill.quoter_id = buyer

\* every fill of a list is booked, the game's fill loop going through the
\* list from the given positions
RECURSIVE FillsBooked(_, _)
FillsBooked(positions, fills) ==
    \/ fills = <<>>
    \/ /\ FillBooked(positions, Head(fills),
                      ApplyFill(positions, Head(fills)))
       /\ FillsBooked(ApplyFill(positions, Head(fills)), Tail(fills))

\* the positions of the players after the game's fill loop has gone through
\* the fills of the last call, from the initial positions
SettledOfCall == ApplyFills(NewInitialState.player_positions_, last_fills)

\* C20: for every fill the game's fill loop applies, the owner of the
\* bid-side order gains size contracts and pays price * size, the owner of
\* the ask-side order loses size contracts and receives price * size,
\* whichever of the two was resting; with is_sell_quote the crossing customer
\* is the buyer and the quoter the seller, without it the other way round.
C20_FillBookkeeping ==
    FillsBooked(NewInitialState.player_positions_, last_fills)

\* the ask of a later move fills against the resting bid of an earlier
\* player, who ends long with cash paid while the asking player ends short
\* with cash received
C20_Witness ==
    /\ ~last_order.is_bid
    /\ last_fills # <<>>
    /\ \E n \in 1 .. Len(last_fills) :
          /\ ~last_fills[n].is_sell_quote
          /\ last_fills[n].quoter_id # last_order.customer_id
          /\ SettledOfCall[last_fills[n].quoter_id + 1].num_contracts > 0
          /\ SettledOfCall[last_fills[n].quoter_id + 1].cash_balance < 0
    /\ SettledOfCall[last_order.customer_id + 1].num_contracts < 0
    /\ SettledOfCall[last_order.customer_id + 1].cash_balance > 0

\* a 1 x 1 quote
Quote1x1(bid_price, ask_price) ==
    [type |-> "PlayerQuoteAction", bid_size_ |-> 1, bid_price_ |-> bid_price,
     ask_size_ |-> 1, ask_price_ |-> ask_price]

\* the three quotes of the end-to-end scenario, with the highest price
\* MaxContractValue in the place of 30: bid 1 / ask 30, bid 2 / ask 29,
\* bid 29 / ask 30
ScenarioQuotes ==
    <<Quote1x1(1, MaxContractValue), Quote1x1(2, MaxContractValue - 1),
      Quote1x1(MaxContractValue - 1, MaxContractValue)>>

\* C21: end-to-end scenario.  From a state at the end of the chance moves,
\* players 0, 1 and 2 quote bid 1 / ask 30, bid 2 / ask 29 and bid 29 / ask 30,
\* sizes 1 x 1 (30 being the highest price): the three quotes are applied and
\* logged, and when the prices are apart as in the scenario (highest price at
\* least 4) the fill log then holds exactly one fill, size 1 at price 29,
\* player 2 crossing player 1's resting ask, with positions P1 = (-1, +29),
\* P2 = (+1, -29) and P0 = P3 = (0, 0).
C21_EndToEndScenario ==
    (fatal = "none" /\ move_number_ = MaxChanceNodesInHistory)
    => LET t == Replay(State,
                    [i \in 1 .. 3 |->
                        StructuredToRawAction("kPlayerTrading",
                                              ScenarioQuotes[i])])
           px == MaxContractValue - 1
       IN  /\ t.fatal = "none"
           /\ t.player_quotes_ = [i \in 1 .. 3 |-> <<i - 1, ScenarioQuotes[i]>>]
           /\ MaxContractValue >= 4 =>
                 /\ Len(t.order_fills_) = 1
                 /\ t.order_fills_[1].price = px
                 /\ t.order_fills_[1].size = 1
                 /\ t.order_fills_[1].customer_id = 2
                 /\ t.order_fills_[1].quoter_id = 1
                 /\ t.order_fills_[1].is_sell_quote
                 /\ t.player_positions_ =
                        [j \in 1 .. NumPlayers |->
                            IF j = 2
                            THEN [num_contracts |-> -1, cash_balance |-> px]
                            ELSE IF j = 3
                            THEN [num_contracts |-> 1, cash_balance |-> -px]
                            ELSE [num_contracts |-> 0, cash_balance |-> 0]]

\* C22: at every state of a game, for every legal action a, ApplyAction(a)
\* followed by UndoAction(player, a) gives back the state, equal in every
\* field: move number, history, contract values, high/low flag, permutation
\* and roles, targets, positions, quote log, fill log and both books.
C22_UndoRestores ==
    fatal = "none" =>
        \A a \in LegalActions(State) :
            LET t == ApplyActionTo(State, a)
            IN  /\ t.fatal = "none"
                /\ UndoAction(t, CurrentPlayer(State), a) = State

\* the private payload of observer p as documented: the contract value at
\* p's permutation slot for a ValueCheater, the high/low signal for the
\* HighLowCheater, the target for a Customer
DocumentedPrivate(p) ==
    LET my_role == player_permutation_.player_roles_[p + 1]
        slot == player_permutation_.permutation_[p + 1]
    IN  IF my_role = "kValueCheater" THEN Float(contract_values_[slot + 1])
        ELSE IF my_role = "kHighLowCheater"
        THEN Float(IF contract_high_settle_ THEN 1 ELSE -1)
        ELSE Float(player_target_positions_[p + 1])

\* C23: from move chance_moves on, index 10 of the information-state tensor
\* of observer p holds contract_values[perm[p]] if p is a ValueCheater (so
\* the two ValueCheaters see the two different draws), +1 or -1 for high or
\* low if p is the HighLowCheater, and p's target if p is a Customer.
C23_PrivatePayload ==
    (values # NoTensor /\ move_number_ >= MaxChanceNodesInHistory)
    => values.values[11] = DocumentedPrivate(values.player)

\* C25: game_phase_of_timestep returns kCustomerSize for every timestep in
\* [4, 4 + num_players), kPlayerTrading from timestep 4 + num_players, and
\* kTerminal at timestep 4 + num_players + steps_per_player * num_players.
C25_PhaseByPlayers ==
    codec.op = "phase" =>
        /\ (4 <= codec.timestep /\ codec.timestep < 4 + NumPlayers)
           => codec.phase = "kCustomerSize"
        /\ (4 + NumPlayers <= codec.timestep
            /\ codec.timestep < 4 + NumPlayers + steps_per_player_ * NumPlayers)
           => codec.phase = "kPlayerTrading"
        /\ codec.timestep = 4 + NumPlayers + steps_per_player_ * NumPlayers
           => codec.phase = "kTerminal"

\* the last timestep of kCustomerSize has been mapped
C25_Witness ==
    /\ codec.op = "phase"
    /\ codec.timestep = 4 + NumPlayers - 1
    /\ codec.phase = "kCustomerSize"

\* C26: RawToStructuredAction(kCustomerSize, raw) with raw = customer_max_size
\* gives a ChanceCustomerSizeAction whose customer_size_ is 0.
C26_MiddleIdIsSizeZero ==
    (codec.op \in {"StructuredToRawAction", "raw"}
     /\ codec.phase = "kCustomerSize"
     /\ codec.raw_action = CustomerMaxSize)
    => /\ codec.structured_action.type = "ChanceCustomerSizeAction"
       /\ codec.structured_action.customer_size_ = 0

\* C27: at every terminal state the returns of the players sum to 0, as
\* UtilitySum() = 0 and kZeroSum declare, also when a customer misses the
\* target.
C27_ReturnsSumToZero ==
    returns # <<>> => SumSeq(returns) = 0

\* C28: ApplyAction of a raw action outside the range of the current phase,
\* negative or above the highest id, ends in a fatal error and leaves every
\* field of the state as it was: contract values, high/low flag, permutation,
\* targets, positions, quote log, fill log, both books, the move number and
\* the history.
C28_InvalidActionIsFatal ==
    [][\A move \in InvalidActions(State) :
          (fatal = "none" /\ SetState(ApplyActionTo(State, move)))
          => /\ fatal' = "SpielFatalError"
             /\ UNCHANGED <<move_number_, contract_values_,
                            contract_high_settle_, player_permutation_,
                            player_quotes_, player_positions_,
                            player_target_positions_, order_fills_,
                            buy_orders_, sell_orders_, history_>>]_vars

\* an id above the range of kCustomerSize was rejected after the permutation
\* had been drawn
C28_Witness ==
    /\ fatal = "SpielFatalError"
    /\ move_number_ = 4
    /\ Len(history_) = 4
    /\ player_permutation_.permutation_ # [i \in 1 .. NumPlayers |-> 0]

\* C29: ClearOrders(c) removes every resting order of customer c from both
\* books, leaves every other resting order in its book with its price, size
\* and tid, and produces no fill and no change of a position.
C29_ClearOrdersFrame ==
    [][(codec'.op = "ClearOrders")
       => LET c == codec'.customer_id
          IN  /\ Range(buy_orders_')
                   = {o \in Range(buy_orders_) : o.customer_id # c}
              /\ Range(sell_orders_')
                   = {o \in Range(sell_orders_) : o.customer_id # c}
              /\ Len(buy_orders_') = Cardinality(Range(buy_orders_'))
              /\ Len(sell_orders_') = Cardinality(Range(sell_orders_'))
              /\ UNCHANGED <<last_fills, order_fills_, player_positions_,
                             fatal>>]_vars

\* ClearOrders has removed an order of the customer from a book that held
\* orders of other customers on both sides, which are still there
C29_Witness ==
    /\ codec.op = "ClearOrders"
    /\ \E o \in Range(book_before.buy) \cup Range(book_before.sell) :
          o.customer_id = codec.customer_id
    /\ buy_orders_ # <<>>
    /\ sell_orders_ # <<>>
    /\ Len(book_before.buy) + Len(book_before.sell) >= 3

\* C31: every fill record carries the tid and the owner of the incoming
\* order (the crossing one, with the higher tid) as tid and customer_id, and
\* the tid and the owner of the resting order as quote_tid and quoter_id, so
\* that tid > quote_tid in every fill.
C31_FillCarriesIncomingTid ==
    \A i \in 1 .. Len(last_fills) :
        /\ last_fills[i].tid = last_order.tid
        /\ last_fills[i].customer_id = last_order.customer_id
        /\ last_fills[i].quote_tid < last_order.tid
        /\ last_fills[i].tid > last_fills[i].quote_tid

\* C32: quote_size of every fill record is the size the resting order had
\* when it was given to AddOrder, also when an earlier match has filled a
\* part of the resting order.
C32_QuoteSizeIsOriginalSize ==
    \A i \in 1 .. Len(last_fills) :
        last_fills[i].quote_size = orders_[last_fills[i].quote_tid - FirstTid + 1].size

\* C33: with four players, permutation rank 21 decodes to the roles
\* [ValueCheater, HighLowCheater, Customer, ValueCheater] of players 0 to 3.
C33_Rank21Roles ==
    (NumPlayers = 4
     /\ codec.op \in {"StructuredToRawAction", "raw"}
     /\ codec.phase = "kChancePermutation"
     /\ codec.raw_action = 21)
    => codec.structured_action.player_roles_
         = <<"kValueCheater", "kHighLowCheater", "kCustomer", "kValueCheater">>

\* C34: the raw id of a quote with sizes in [0, max_contracts_per_trade] and
\* prices in [1, max_contract_value] is
\* ((bid_size * (max_contracts_per_trade + 1) + ask_size) * max_contract_value
\*   + (bid_price - 1)) * max_contract_value + (ask_price - 1);
\* raw id 0 decodes to sizes 0 x 0 with both prices 1, and the largest id is
\* (max_contracts_per_trade + 1)^2 * max_contract_value^2 - 1, which is
\* NumDistinctActions() - 1.
C34_QuoteDigits ==
    (codec.op \in {"decode", "structured"} /\ codec.phase = "kPlayerTrading"
       /\ codec.structured_action \in DataModelActions("kPlayerTrading"))
    => LET a == codec.structured_action
           largest == (MaxContractsPerTrade + 1) * (MaxContractsPerTrade + 1)
                        * MaxContractValue * MaxContractValue - 1
       IN  /\ codec.raw_action
                = ((a.bid_size_ * (MaxContractsPerTrade + 1) + a.ask_size_)
                      * MaxContractValue + (a.bid_price_ - 1))
                    * MaxContractValue + (a.ask_price_ - 1)
           /\ codec.raw_action <= largest
           /\ largest = NumDistinctActions - 1
           /\ (a.bid_size_ = MaxContractsPerTrade
               /\ a.ask_size_ = MaxContractsPerTrade
               /\ a.bid_price_ = MaxContractValue
               /\ a.ask_price_ = MaxContractValue)
              => codec.raw_action = largest
           /\ (codec.op = "structured" /\ codec.raw_action = 0)
              => codec.reverse_structured_action
                   = [type |-> "PlayerQuoteAction", bid_size_ |-> 0,
                      bid_price_ |-> 1, ask_size_ |-> 0, ask_price_ |-> 1]

\* a quote whose two sizes differ and whose two prices differ has been
\* encoded and decoded
C34_Witness ==
    /\ codec.op = "structured"
    /\ codec.phase = "kPlayerTrading"
    /\ codec.structured_action.bid_size_ = MaxContractsPerTrade
    /\ codec.structured_action.ask_size_ = 0
    /\ codec.structured_action.bid_price_ = MaxContractValue
    /\ codec.structured_action.ask_price_ = 1

\* C35: at every terminal state the return of each player, the customers'
\* target penalty included, lies in [MinUtility(), MaxUtility()], where
\* MaxUtility() = (max_contract_value - 1) * max_contracts_per_trade
\*                  * steps_per_player * num_players = -MinUtility().
C35_ReturnsWithinUtilityBounds ==
    returns # <<>> =>
        \A j \in 1 .. NumPlayers :
            MinUtility <= returns[j] /\ returns[j] <= MaxUtility

\* C36: from move chance_moves on, for every permutation rank and every
\* player, InformationStateString returns without failing a check: the
\* permutation index it finds for a ValueCheater is 0 or 1, the one it finds
\* for the HighLowCheater is 2, and a Customer's target is not 0, so the
\* "Not supposed to happen" line is never written.
C36_InfoStringChecksHold ==
    (info_string_ # NoString /\ move_number_ >= MaxChanceNodesInHistory)
    => /\ fatal = "none"
       /\ \A i \in 1 .. Len(info_string_.result) :
             info_string_.result[i][1]
               # "Not supposed to happen. Customer target position should not be 0 "

\* C37: before move chance_moves, the initial state and the states before
\* the permutation is drawn included, InformationStateString (which
\* ObservationString returns) of every player in [0, num_players) is the
\* blank "pending" private section, without a fatal error.
C37_InfoStringPending ==
    (info_string_ # NoString /\ move_number_ < MaxChanceNodesInHistory)
    => /\ fatal = "none"
       /\ info_string_.result
            = <<<<"********** Private Information **********", "">>,
                <<"Private info pending...", "">>,
                <<"***************************", "">>>>

\* the book of the last order's own side, as it was when AddOrder was called
OwnSideBefore == IF last_order.is_bid THEN book_before.buy ELSE book_before.sell

OwnSideAfter == IF last_order.is_bid THEN buy_orders_ ELSE sell_orders_

\* C38: with tids strictly increasing across AddOrder calls, every fill of a
\* call AddOrder(o) matches o against an order that was resting on the
\* opposite side, two orders that were resting before the call never match
\* each other, so that in every fill the order of the lower tid is the resting
\* one, and all fills of the call have the same is_sell_quote flag, o.is_bid.
C38_IncomingAgainstResting ==
    /\ \A i \in 1 .. Len(last_fills) :
          /\ \E o \in Range(OppositeBefore) :
                /\ o.tid = last_fills[i].quote_tid
                /\ o.customer_id = last_fills[i].quoter_id
                /\ o.tid < last_order.tid
          /\ last_fills[i].customer_id = last_order.customer_id
          /\ last_fills[i].is_sell_quote = last_order.is_bid
    /\ SumSeq([i \in 1 .. Len(last_fills) |-> last_fills[i].size])
         <= last_order.size
    /\ \A x \in Range(OwnSideBefore) : x \in Range(OwnSideAfter)

\* one call matched against two resting orders while an order rested on the
\* incoming order's own side
C38_Witness ==
    /\ Len(last_fills) >= 2
    /\ OwnSideBefore # <<>>
    /\ last_fills[1].quote_tid # last_fills[2].quote_tid


\* the fills of a sequence between two different players
BetweenOthers(fill) == fill.quoter_id # fill.customer_id

\* the positions after the fills between different players alone
RECURSIVE SettleOthers(_, _)
SettleOthers(positions, fills) ==
    IF fills = <<>> THEN positions
    ELSE SettleOthers(IF BetweenOthers(Head(fills)) THEN ApplyFill(positions, Head(fills)) ELSE positions, Tail(fills))

\* the quote has both sides and its bid is not below its ask
CrossesItself(quote) ==
    /\ quote.bid_size_ > 0
    /\ quote.ask_size_ > 0
    /\ quote.bid_price_ >= quote.ask_price_

\* added to the books of the state, the bid of the quote would rest in full at
\* the top of the buy book
BidRestsOnTop(quote) ==
    /\ \A o \in Range(sell_orders_) : o.price > quote.bid_price_
    /\ \A o \in Range(buy_orders_) : o.price < quote.bid_price_

\* C39: when the ask of a quote is matched against a bid of the same player,
\* the fill names that player as quoter and as customer; a quote of the
\* player to move with both sizes positive and bid >= ask whose bid rests at
\* the top of the book is applied and gives such a fill, at the bid price and
\* of the smaller of the two sizes; and the positions after the move are the
\* positions before it settled by the fills between different players alone:
\* a fill of a player with itself leaves its contracts and cash, and
\* everybody else's, unchanged.
C39_SelfFillIsNeutral ==
    PlayerToMove =>
        \A raw \in QuoteIds :
            LET t == Quoted(raw)
                mover == CurrentPlayer(State)
                quote == RawToStructuredAction("kPlayerTrading", raw)
                fills == FillsOf(t)
            IN  (CrossesItself(quote) /\ BidRestsOnTop(quote))
                  => /\ t.fatal = "none"
                     /\ fills # <<>>
                     /\ fills[1].quoter_id = mover
                     /\ fills[1].customer_id = mover
                     /\ fills[1].quote_tid = BidTid(move_number_)
                     /\ fills[1].price = quote.bid_price_
                     /\ fills[1].size = Min(quote.bid_size_, quote.ask_size_)
                     /\ \A n \in 1 .. Len(fills) :
                           ~BetweenOthers(fills[n])
                             => ApplyFill(t.player_positions_, fills[n])
                                  = t.player_positions_
                     /\ t.player_positions_
                          = SettleOthers(player_positions_, fills)

\* C40: a chance-phase ApplyAction leaves both books, every position, the
\* quote log and the fill log unchanged; a trading-phase ApplyAction appends
\* exactly one entry to the quote log, the mover with the quote decoded from
\* the action, keeps the fill log as a prefix of the new one, and leaves the
\* contract values, the high/low flag, the permutation and the target
\* positions unchanged.
C40_ApplyActionFrame ==
    /\ (fatal = "none" /\ move_number_ < MaxChanceNodesInHistory) =>
          \A raw \in LegalActions(State) :
              LET t == ApplyActionTo(State, raw)
              IN  /\ t.fatal = "none"
                  /\ t.move_number_ = move_number_ + 1
                  /\ t.buy_orders_ = buy_orders_
                  /\ t.sell_orders_ = sell_orders_
                  /\ t.player_positions_ = player_positions_
                  /\ t.player_quotes_ = player_quotes_
                  /\ t.order_fills_ = order_fills_
    /\ PlayerToMove =>
          \A raw \in QuoteIds :
              LET t == Quoted(raw)
              IN  /\ t.fatal = "none"
                  /\ t.move_number_ = move_number_ + 1
                  /\ t.player_quotes_
                       = Append(player_quotes_,
                           <<CurrentPlayer(State),
                             RawToStructuredAction("kPlayerTrading", raw)>>)
                  /\ Len(t.order_fills_) >= Len(order_fills_)
                  /\ SubSeq(t.order_fills_, 1, Len(order_fills_)) = order_fills_
                  /\ t.contract_values_ = contract_values_
                  /\ t.contract_high_settle_ = contract_high_settle_
                  /\ t.player_permutation_ = player_permutation_
                  /\ t.player_target_positions_ = player_target_positions_
=============================================================================
